---- MODULE Spec2Model ----
(***************************************************************************)
(* A shape- and value-level model of the BigGAN components of               *)
(* src/2-Build better GANs/week3-StyleGANAndAdvancements/BigGAN.py.         *)
(*                                                                         *)
(* A tensor is modelled by its shape, a sequence of dimension sizes        *)
(* (<<B, C, H, W>> for an activation, <<B, D>> for a batch of vectors).    *)
(* Every module of the source is a record built by an operator named after *)
(* its constructor, and every forward is an operator that returns a record *)
(* with the field ok (FALSE when the call raises) and the shapes it made.  *)
(* Where a claim is about values (the discriminator's score, the gain of   *)
(* the attention block) the values are carried too.                        *)
(***************************************************************************)
EXTENDS Integers, Sequences, FiniteSets, TLC

VARIABLES
    gen,        \* the constructed Generator (a record of its attributes)
    disc,       \* the constructed Discriminator
    sn,         \* the spectral-normalisation wrappers: weight and buffers
    pc,         \* the position of the forward pass in progress
    idx,        \* the stage the pass is at (0 when not in a stage loop)
    inp,        \* the inputs of the call in progress
    h,          \* the activation the pass carries (its shape)
    zs,         \* Generator.forward's local zs: the chunks of the noise
    ys,         \* Generator.forward's local ys: the conditioning vectors
    call,       \* the record of the last block forward that ran
    used,       \* the weighted layers the pass has applied so far
    out         \* what the last finished call returned (or that it raised)

vars == <<gen, disc, sn, pc, idx, inp, h, zs, ys, call, used, out>>

----------------------------------------------------------------------------
(* Bounds of the model.                                                    *)

MaxBatch == 2
MaxBottomWidth == 4
MaxChannels == 2
MaxSide == 4
MaxZDim == 13

(* Program constants.                                                      *)

n_chunks == 6
RGB == 3

BaseChannelsSet == {4, 12, 96}
SharedDimSet == {2, 128}
ZDimSet == (n_chunks - 1 .. MaxZDim) \cup {120}
NClasses == 2

----------------------------------------------------------------------------
(* Tensor bookkeeping shared by the forwards. An operation maps shapes to  *)
(* a shape; the empty shape Raise stands for an exception, which every     *)
(* later operation of the forward passes on.                               *)

Raise == <<>>
Res(s) == [ok |-> s # Raise, shape |-> s]

RECURSIVE Prod(_)
Prod(s) == IF s = <<>> THEN 1 ELSE Head(s) * Prod(Tail(s))

Numel(s) == Prod(s)

(* x.view(-1, d2, ..): the leading dimension is inferred from the element  *)
(* count; it fails when the count is not a multiple of the other           *)
(* dimensions, or when they multiply to 0.                                 *)
View(x, rest) ==
    IF x = Raise \/ Prod(rest) = 0 THEN Raise
    ELSE IF Numel(x) % Prod(rest) # 0 THEN Raise
    ELSE <<Numel(x) \div Prod(rest)>> \o rest

(* Elementwise a + b, a * b: equal ranks here; a dimension of size 1 is    *)
(* broadcast, any other mismatch raises.                                   *)
Broadcast(a, b) ==
    IF a = Raise \/ b = Raise \/ Len(a) # Len(b) THEN Raise
    ELSE IF \A i \in 1..Len(a) : a[i] = b[i] \/ a[i] = 1 \/ b[i] = 1
         THEN [i \in 1..Len(a) |-> IF a[i] = 1 THEN b[i] ELSE a[i]]
         ELSE Raise

(* a.transpose(1, 2) of a rank-3 tensor.                                   *)
Transpose12(a) == IF a = Raise THEN Raise ELSE <<a[1], a[3], a[2]>>

(* torch.bmm(a, b): both of rank 3, the same batch, inner sizes equal.     *)
BmmAnyBatch(a, b) ==
    IF a = Raise \/ b = Raise THEN Raise
    ELSE IF a[3] = b[2] THEN <<a[1], a[2], b[3]>> ELSE Raise
Bmm(a, b) ==
    IF a = Raise \/ b = Raise THEN Raise
    ELSE IF a[1] = b[1] /\ a[3] = b[2] THEN <<a[1], a[2], b[3]>> ELSE Raise

(* Layers: nn.Conv2d, nn.Linear, nn.Embedding and their wrapping.          *)
Conv2d(cin, cout) == [kind |-> "conv", in |-> cin, out |-> cout, sn |-> FALSE]
Linear(cin, cout) == [kind |-> "linear", in |-> cin, out |-> cout, sn |-> FALSE]
Embedding(n, dim) == [kind |-> "embedding", in |-> n, out |-> dim, sn |-> FALSE]
spectral_norm(layer) == [layer EXCEPT !.sn = TRUE]

(* A 1x1 convolution without padding and a 3x3 one with padding 1 both     *)
(* keep the spatial size; the input must have the layer's in_channels.     *)
ApplyConv(layer, x) ==
    IF x = Raise THEN Raise
    ELSE IF x[2] = layer.in THEN <<x[1], layer.out, x[3], x[4]>> ELSE Raise

ApplyLinear(layer, x) ==
    IF x = Raise THEN Raise
    ELSE IF x[Len(x)] = layer.in THEN <<x[1], layer.out>> ELSE Raise

(* F.max_pool2d(., kernel_size=2) and nn.AvgPool2d(2): floor division; an  *)
(* output of size 0 raises.                                                *)
Pool2Keep(x) == x
Pool2(x) ==
    IF x = Raise THEN Raise
    ELSE IF x[3] < 2 \/ x[4] < 2 THEN Raise
    ELSE <<x[1], x[2], x[3] \div 2, x[4] \div 2>>

(* nn.Upsample(scale_factor=2).                                            *)
UpsampleNone(x) == x
Upsample2(x) == IF x = Raise THEN Raise ELSE <<x[1], x[2], 2 * x[3], 2 * x[4]>>

(* nn.BatchNorm2d(num_features)(x): the channel count must match, and in   *)
(* training mode a batch with a single value per channel raises.           *)
BatchNorm2d(num_features, x, train) ==
    IF x = Raise THEN Raise
    ELSE IF x[2] # num_features THEN Raise
    ELSE IF train /\ x[1] * x[3] * x[4] = 1 THEN Raise
    ELSE x

(* The use of a weighted layer in a forward: what it is and whether it is  *)
(* spectrally normalised.                                                  *)
Use(name, layer) == [name |-> name, kind |-> layer.kind, sn |-> layer.sn]

----------------------------------------------------------------------------
(* nn.utils.spectral_norm: the wrapper keeps the parameter weight_orig and *)
(* the buffers u and v, and a hook that runs before every forward of the   *)
(* wrapped layer. In training mode the hook does one power iteration in    *)
(* place, v = normalize(W^T u) and then u = normalize(W v), and sets the   *)
(* layer's weight to W / (u . W v). A wrapper is followed here through a   *)
(* 2 x 2 weight; a vector of norm 1 is given by its direction, the         *)
(* integer vector of that direction whose entries have no common factor.   *)

Abs(n) == IF n < 0 THEN -n ELSE n

RECURSIVE Gcd(_, _)
Gcd(a, b) == IF b = 0 THEN a ELSE Gcd(b, a % b)

Dot2(a, b) == a[1] * b[1] + a[2] * b[2]
MatVec(W, x) == <<Dot2(W[1], x), Dot2(W[2], x)>>
TransposeMat(W) == <<<<W[1][1], W[2][1]>>, <<W[1][2], W[2][2]>>>>

(* F.normalize(x, dim=0, eps): x / max(norm(x), eps); the zero vector      *)
(* stays zero.                                                             *)
Normalize(x) ==
    IF x = <<0, 0>> THEN x
    ELSE LET g == Gcd(Abs(x[1]), Abs(x[2]))
         IN  <<x[1] \div g, x[2] \div g>>

PowerIterationSwapped(W, b) ==
    [u |-> Normalize(MatVec(W, b.v)),
     v |-> Normalize(MatVec(TransposeMat(W), b.u))]
PowerIteration(W, b) ==
    LET v == Normalize(MatVec(TransposeMat(W), b.u))
        u == Normalize(MatVec(W, v))
    IN  [u |-> u, v |-> v]

(* The buffers of the wrapper named k: those it was constructed with until *)
(* its hook has run.                                                       *)
Buffers(s, k) ==
    IF k \in DOMAIN s.bufs THEN s.bufs[k] ELSE [u |-> s.init.u, v |-> s.init.v]

(* The hooks of the wrappers keys run, in a module in training mode or     *)
(* not.                                                                    *)
SpectralNormHooks(s, keys, train) ==
    IF ~train THEN s
    ELSE [s EXCEPT !.bufs =
            [k \in (DOMAIN s.bufs) \cup keys |->
                IF k \in keys
                THEN PowerIteration(s.init.weight_orig, Buffers(s, k))
                ELSE s.bufs[k]]]

(* The wrappers named names of the module fn, at stage stage of it.        *)
Keys(fn, stage, names) == {<<fn, stage, n>> : n \in names}

----------------------------------------------------------------------------
(* ClassConditionalBatchNorm2d.                                            *)

ClassConditionalBatchNorm2d(in_channels, out_channels) ==
    [bn |-> out_channels,
     class_scale_transform |-> spectral_norm(Linear(in_channels, out_channels)),
     class_shift_transform |-> spectral_norm(Linear(in_channels, out_channels))]

(* t[:, :, None, None] of a [B, C] tensor.                                 *)
Expand(t) == IF t = Raise THEN Raise ELSE <<t[1], t[2], 1, 1>>

CCBNForward(m, x, y, train) ==
    LET normalized_image == BatchNorm2d(m.bn, x, train)
        class_scale == Expand(ApplyLinear(m.class_scale_transform, y))
        class_shift == Expand(ApplyLinear(m.class_shift_transform, y))
    IN  Broadcast(Broadcast(class_scale, normalized_image), class_shift)

CCBNUses(name, m) ==
    {Use(name \o ".class_scale_transform", m.class_scale_transform),
     Use(name \o ".class_shift_transform", m.class_shift_transform)}

(* The wrapped layers a forward calls, up to the operation that raises if  *)
(* one does: a layer's hook runs when the layer is called, before the      *)
(* layer checks its input.                                                 *)
CCBNHooks(name, m, x, y, train) ==
    IF BatchNorm2d(m.bn, x, train) = Raise THEN {}
    ELSE {name \o ".class_scale_transform"}
         \cup (IF ApplyLinear(m.class_scale_transform, y) = Raise THEN {}
               ELSE {name \o ".class_shift_transform"})

----------------------------------------------------------------------------
(* AttentionBlock.                                                         *)

(* Tensor elements are floats: a finite number, an infinity or a NaN.      *)
Fin(n) == [k |-> "fin", v |-> n]
Inf(sign) == [k |-> "inf", v |-> sign]
NaN == [k |-> "nan", v |-> 0]

Sign(n) == IF n > 0 THEN 1 ELSE IF n < 0 THEN -1 ELSE 0

FMul(a, b) ==
    IF a.k = "nan" \/ b.k = "nan" THEN NaN
    ELSE IF a.k = "fin" /\ b.k = "fin" THEN Fin(a.v * b.v)
    ELSE IF Sign(a.v) * Sign(b.v) = 0 THEN NaN
    ELSE Inf(Sign(a.v) * Sign(b.v))

FAdd(a, b) ==
    IF a.k = "nan" \/ b.k = "nan" THEN NaN
    ELSE IF a.k = "fin" /\ b.k = "fin" THEN Fin(a.v + b.v)
    ELSE IF a.k = "inf" /\ b.k = "inf" THEN (IF a.v = b.v THEN a ELSE NaN)
    ELSE IF a.k = "inf" THEN a ELSE b

AttentionBlockHalved(channels) ==
    [channels |-> channels \div 2,
     theta |-> spectral_norm(Conv2d(channels \div 2, channels \div 16)),
     phi |-> spectral_norm(Conv2d(channels \div 2, channels \div 16)),
     g |-> spectral_norm(Conv2d(channels \div 2, channels \div 4)),
     o |-> spectral_norm(Conv2d(channels \div 4, channels \div 2)),
     gamma |-> Fin(0)]
AttentionBlock(channels) ==
    [channels |-> channels,
     theta |-> spectral_norm(Conv2d(channels, channels \div 8)),
     phi |-> spectral_norm(Conv2d(channels, channels \div 8)),
     g |-> spectral_norm(Conv2d(channels, channels \div 2)),
     o |-> spectral_norm(Conv2d(channels \div 2, channels)),
     gamma |-> Fin(0)]

(* One element of the result: self.gamma * o + x.                          *)
GainResidualBad(gamma, o, x) == FMul(gamma, FAdd(o, x))
GainResidual(gamma, o, x) == FAdd(FMul(gamma, o), x)

AttentionForward(m, x) ==
    LET spatial_size == x[3] * x[4]
        c8 == m.channels \div 8
        c2 == m.channels \div 2
        theta == View(ApplyConv(m.theta, x), <<c8, spatial_size>>)
        phi == View(Pool2(ApplyConv(m.phi, x)), <<c8, spatial_size \div 4>>)
        g == View(Pool2(ApplyConv(m.g, x)), <<c2, spatial_size \div 4>>)
        beta == Bmm(Transpose12(theta), phi)
        o == ApplyConv(m.o,
                       View(Bmm(g, Transpose12(beta)), <<c2, x[3], x[4]>>))
        res == Broadcast(o, x)
    IN  [kind |-> "attn", ok |-> res # Raise, shape |-> res, x |-> x,
         theta |-> theta, phi |-> phi, g |-> g, beta |-> beta, o |-> o]

AttentionUses(name, m) ==
    {Use(name \o ".theta", m.theta), Use(name \o ".phi", m.phi),
     Use(name \o ".g", m.g), Use(name \o ".o", m.o)}

AttentionHooks(name, m, x) ==
    LET r == AttentionForward(m, x)
        att == View(Bmm(r.g, Transpose12(r.beta)),
                    <<m.channels \div 2, x[3], x[4]>>)
    IN  {name \o ".theta"}
        \cup (IF ApplyConv(m.theta, x) = Raise THEN {}
              ELSE {name \o ".phi"}
                   \cup (IF Pool2(ApplyConv(m.phi, x)) = Raise THEN {}
                         ELSE {name \o ".g"}
                              \cup (IF att = Raise THEN {} ELSE {name \o ".o"})))

----------------------------------------------------------------------------
(* GResidualBlock.                                                         *)

GMixinAlways(in_channels, out_channels) == TRUE
GMixin(in_channels, out_channels) == in_channels # out_channels

GResidualBlock(c_dim, in_channels, out_channels) ==
    [conv1 |-> spectral_norm(Conv2d(in_channels, out_channels)),
     conv2 |-> spectral_norm(Conv2d(out_channels, out_channels)),
     bn1 |-> ClassConditionalBatchNorm2d(c_dim, in_channels),
     bn2 |-> ClassConditionalBatchNorm2d(c_dim, out_channels),
     in_channels |-> in_channels,
     out_channels |-> out_channels,
     mixin |-> GMixin(in_channels, out_channels),
     conv_mixin |-> spectral_norm(Conv2d(in_channels, out_channels))]

(* The skip path: upsample, then the 1x1 convolution when self.mixin.      *)
GSkipNoUpsample(m, x) ==
    [r |-> IF m.mixin THEN ApplyConv(m.conv_mixin, x) ELSE x,
     ops |-> IF m.mixin THEN <<"conv_mixin">> ELSE <<>>]
GSkip(m, x) ==
    [r |-> IF m.mixin THEN ApplyConv(m.conv_mixin, Upsample2(x))
                      ELSE Upsample2(x),
     ops |-> <<"upsample_fn">> \o (IF m.mixin THEN <<"conv_mixin">> ELSE <<>>)]

GResidualForward(m, x, y, train) ==
    LET h1 == ApplyConv(m.conv1, Upsample2(CCBNForward(m.bn1, x, y, train)))
        h2 == ApplyConv(m.conv2, CCBNForward(m.bn2, h1, y, train))
        skip == GSkip(m, x)
        sum == Broadcast(h2, skip.r)
    IN  [kind |-> "gres", ok |-> sum # Raise, shape |-> sum, x |-> x,
         main |-> Res(h2), skip |-> Res(skip.r), skip_ops |-> skip.ops,
         main_ops |-> <<"bn1", "activation", "upsample_fn", "conv1",
                        "bn2", "activation", "conv2">>,
         in_channels |-> m.in_channels, out_channels |-> m.out_channels]

GResidualUses(name, m) ==
    CCBNUses(name \o ".bn1", m.bn1) \cup CCBNUses(name \o ".bn2", m.bn2)
    \cup {Use(name \o ".conv1", m.conv1), Use(name \o ".conv2", m.conv2)}
    \cup (IF m.mixin THEN {Use(name \o ".conv_mixin", m.conv_mixin)} ELSE {})

GResidualHooks(name, m, x, y, train) ==
    LET h0 == CCBNForward(m.bn1, x, y, train)
        h1 == ApplyConv(m.conv1, Upsample2(h0))
        h2 == CCBNForward(m.bn2, h1, y, train)
        h3 == ApplyConv(m.conv2, h2)
    IN  CCBNHooks(name \o ".bn1", m.bn1, x, y, train)
        \cup (IF h0 = Raise THEN {}
              ELSE {name \o ".conv1"}
                   \cup (IF h1 = Raise THEN {}
                         ELSE CCBNHooks(name \o ".bn2", m.bn2, h1, y, train)
                              \cup (IF h2 = Raise THEN {}
                                    ELSE {name \o ".conv2"}
                                         \cup (IF h3 # Raise /\ m.mixin
                                               THEN {name \o ".conv_mixin"}
                                               ELSE {}))))

----------------------------------------------------------------------------
(* DResidualBlock.                                                         *)

DResidualBlockMixinOnChannels(in_channels, out_channels, downsample, use_preactivation) ==
    [conv1 |-> spectral_norm(Conv2d(in_channels, out_channels)),
     conv2 |-> spectral_norm(Conv2d(out_channels, out_channels)),
     use_preactivation |-> use_preactivation,
     downsample |-> downsample,
     in_channels |-> in_channels,
     out_channels |-> out_channels,
     mixin |-> in_channels # out_channels,
     conv_mixin |-> spectral_norm(Conv2d(in_channels, out_channels))]
DResidualBlock(in_channels, out_channels, downsample, use_preactivation) ==
    [conv1 |-> spectral_norm(Conv2d(in_channels, out_channels)),
     conv2 |-> spectral_norm(Conv2d(out_channels, out_channels)),
     use_preactivation |-> use_preactivation,
     downsample |-> downsample,
     in_channels |-> in_channels,
     out_channels |-> out_channels,
     mixin |-> (in_channels # out_channels) \/ downsample,
     conv_mixin |-> spectral_norm(Conv2d(in_channels, out_channels))]

DMixNone(m, x) == x
DMix(m, x) == IF m.mixin THEN ApplyConv(m.conv_mixin, x) ELSE x
DDown(m, x) == IF m.downsample THEN Pool2(x) ELSE x

(* DResidualBlock._residual.                                               *)
DResidualDownsampleFirst(m, x) ==
    [r |-> DMix(m, DDown(m, x)),
     ops |-> (IF m.downsample THEN <<"downsample_fn">> ELSE <<>>)
             \o (IF m.mixin THEN <<"conv_mixin">> ELSE <<>>)]
DResidual(m, x) ==
    [r |-> IF m.use_preactivation THEN DDown(m, DMix(m, x))
                                  ELSE DMix(m, DDown(m, x)),
     ops |-> IF m.use_preactivation
             THEN (IF m.mixin THEN <<"conv_mixin">> ELSE <<>>)
                  \o (IF m.downsample THEN <<"downsample_fn">> ELSE <<>>)
             ELSE (IF m.downsample THEN <<"downsample_fn">> ELSE <<>>)
                  \o (IF m.mixin THEN <<"conv_mixin">> ELSE <<>>)]

DMainAlwaysDown(m, x) == Pool2(ApplyConv(m.conv1, x))
DMain(m, x) == DDown(m, ApplyConv(m.conv1, x))

DResidualForward(m, x) ==
    LET hh == DMain(m, x)
        skip == DResidual(m, x)
        sum == Broadcast(hh, skip.r)
    IN  [kind |-> "dres", ok |-> sum # Raise, shape |-> sum, x |-> x,
         main |-> Res(hh), skip |-> Res(skip.r), skip_ops |-> skip.ops,
         main_ops |-> (IF m.use_preactivation THEN <<"relu">> ELSE <<>>)
                      \o <<"conv1", "activation">>
                      \o (IF m.downsample THEN <<"downsample_fn">> ELSE <<>>),
         in_channels |-> m.in_channels, out_channels |-> m.out_channels]

DResidualUsesBoth(name, m) ==
    {Use(name \o ".conv1", m.conv1), Use(name \o ".conv2", m.conv2)}
    \cup (IF m.mixin THEN {Use(name \o ".conv_mixin", m.conv_mixin)} ELSE {})
DResidualUses(name, m) ==
    {Use(name \o ".conv1", m.conv1)}
    \cup (IF m.mixin THEN {Use(name \o ".conv_mixin", m.conv_mixin)} ELSE {})

DResidualHooks(name, m, x) ==
    {name \o ".conv1"}
    \cup (IF DMain(m, x) # Raise /\ m.mixin
             /\ (m.use_preactivation \/ DDown(m, x) # Raise)
          THEN {name \o ".conv_mixin"} ELSE {})

----------------------------------------------------------------------------
(* Generator.                                                              *)

(* nn.Module.training: True from construction; the source never leaves     *)
(* training mode.                                                          *)
training == TRUE

ZChunkSize(z_dim) == z_dim \div n_chunks

Generator(base_channels, bottom_width, z_dim, shared_dim, n_classes) ==
    LET z_chunk_size == ZChunkSize(z_dim)
        c_dim == shared_dim + z_chunk_size
    IN  [z_chunk_size |-> z_chunk_size,
         z_dim |-> z_dim,
         shared_dim |-> shared_dim,
         bottom_width |-> bottom_width,
         base_channels |-> base_channels,
         shared_emb |-> Embedding(n_classes, shared_dim),
         proj_z |-> Linear(z_chunk_size,
                           16 * base_channels * bottom_width * bottom_width),
         g_blocks |-> <<
            [res |-> GResidualBlock(c_dim, 16 * base_channels, 16 * base_channels),
             attn |-> AttentionBlock(16 * base_channels)],
            [res |-> GResidualBlock(c_dim, 16 * base_channels, 8 * base_channels),
             attn |-> AttentionBlock(8 * base_channels)],
            [res |-> GResidualBlock(c_dim, 8 * base_channels, 4 * base_channels),
             attn |-> AttentionBlock(4 * base_channels)],
            [res |-> GResidualBlock(c_dim, 4 * base_channels, 2 * base_channels),
             attn |-> AttentionBlock(2 * base_channels)],
            [res |-> GResidualBlock(c_dim, 2 * base_channels, base_channels),
             attn |-> AttentionBlock(base_channels)] >>,
         proj_o |-> [bn |-> base_channels,
                     conv |-> spectral_norm(Conv2d(base_channels, RGB))]]

(* The columns of the noise z and of the class embedding y, by position.   *)
ZCols(n) == [i \in 1..n |-> <<"z", i>>]
YCols(n) == [i \in 1..n |-> <<"y", i>>]

(* torch.split(z, split_size, dim=1): chunks of split_size columns, the    *)
(* last one shorter when the width is no multiple of it; a split_size of 0 *)
(* raises unless the width is 0, where the result is z alone.              *)
RECURSIVE Chunks(_, _)
Chunks(cols, size) ==
    IF Len(cols) <= size THEN <<cols>>
    ELSE <<SubSeq(cols, 1, size)>> \o Chunks(SubSeq(cols, size + 1, Len(cols)), size)

TorchSplit(cols, size) ==
    IF size = 0
    THEN (IF Len(cols) = 0 THEN [ok |-> TRUE, chunks |-> <<cols>>]
                           ELSE [ok |-> FALSE, chunks |-> <<>>])
    ELSE [ok |-> TRUE, chunks |-> Chunks(cols, size)]

(* ys = [torch.cat([y, z], dim=1) for z in zs[1:]]                         *)
CondVectorsFromFirst(y, chunks) == [i \in 1..Len(chunks) |-> y \o chunks[i]]
CondVectors(y, chunks) == [i \in 1..(Len(chunks) - 1) |-> y \o chunks[i + 1]]

----------------------------------------------------------------------------
(* Discriminator.                                                          *)

DiscriminatorAllDownsample(base_channels, n_classes) ==
    [shared_emb |-> spectral_norm(Embedding(n_classes, 16 * base_channels)),
     d_blocks |-> <<
        [res |-> DResidualBlock(RGB, base_channels, TRUE, FALSE),
         attn |-> AttentionBlock(base_channels)],
        [res |-> DResidualBlock(base_channels, 2 * base_channels, TRUE, TRUE),
         attn |-> AttentionBlock(2 * base_channels)],
        [res |-> DResidualBlock(2 * base_channels, 4 * base_channels, TRUE, TRUE),
         attn |-> AttentionBlock(4 * base_channels)],
        [res |-> DResidualBlock(4 * base_channels, 8 * base_channels, TRUE, TRUE),
         attn |-> AttentionBlock(8 * base_channels)],
        [res |-> DResidualBlock(8 * base_channels, 16 * base_channels, TRUE, TRUE),
         attn |-> AttentionBlock(16 * base_channels)],
        [res |-> DResidualBlock(16 * base_channels, 16 * base_channels, TRUE, TRUE),
         attn |-> AttentionBlock(16 * base_channels)] >>,
     proj_o |-> spectral_norm(Linear(16 * base_channels, 1))]
DiscriminatorAllPreactivation(base_channels, n_classes) ==
    [shared_emb |-> spectral_norm(Embedding(n_classes, 16 * base_channels)),
     d_blocks |-> <<
        [res |-> DResidualBlock(RGB, base_channels, TRUE, TRUE),
         attn |-> AttentionBlock(base_channels)],
        [res |-> DResidualBlock(base_channels, 2 * base_channels, TRUE, TRUE),
         attn |-> AttentionBlock(2 * base_channels)],
        [res |-> DResidualBlock(2 * base_channels, 4 * base_channels, TRUE, TRUE),
         attn |-> AttentionBlock(4 * base_channels)],
        [res |-> DResidualBlock(4 * base_channels, 8 * base_channels, TRUE, TRUE),
         attn |-> AttentionBlock(8 * base_channels)],
        [res |-> DResidualBlock(8 * base_channels, 16 * base_channels, TRUE, TRUE),
         attn |-> AttentionBlock(16 * base_channels)],
        [res |-> DResidualBlock(16 * base_channels, 16 * base_channels, FALSE, TRUE),
         attn |-> AttentionBlock(16 * base_channels)] >>,
     proj_o |-> spectral_norm(Linear(16 * base_channels, 1))]
Discriminator(base_channels, n_classes) ==
    [shared_emb |-> spectral_norm(Embedding(n_classes, 16 * base_channels)),
     d_blocks |-> <<
        [res |-> DResidualBlock(RGB, base_channels, TRUE, FALSE),
         attn |-> AttentionBlock(base_channels)],
        [res |-> DResidualBlock(base_channels, 2 * base_channels, TRUE, TRUE),
         attn |-> AttentionBlock(2 * base_channels)],
        [res |-> DResidualBlock(2 * base_channels, 4 * base_channels, TRUE, TRUE),
         attn |-> AttentionBlock(4 * base_channels)],
        [res |-> DResidualBlock(4 * base_channels, 8 * base_channels, TRUE, TRUE),
         attn |-> AttentionBlock(8 * base_channels)],
        [res |-> DResidualBlock(8 * base_channels, 16 * base_channels, TRUE, TRUE),
         attn |-> AttentionBlock(16 * base_channels)],
        [res |-> DResidualBlock(16 * base_channels, 16 * base_channels, FALSE, TRUE),
         attn |-> AttentionBlock(16 * base_channels)] >>,
     proj_o |-> spectral_norm(Linear(16 * base_channels, 1))]

(* h = torch.sum(h, dim=[2, 3])                                            *)
SumSpatial(x) == IF x = Raise THEN Raise ELSE <<x[1], x[2]>>

(* The shapes of Discriminator.forward after d_blocks: the pooled          *)
(* features, the unconditional score and, with a label y of shape [B],     *)
(* the conditional one and the sum returned.                               *)
DHeadNoKeepdim(m, x, labelled, ylen) ==
    LET pooled == SumSpatial(x)
        uncond_out == ApplyLinear(m.proj_o, pooled)
        prod == Broadcast(<<ylen, m.shared_emb.out>>, pooled)
        cond_out == IF prod = Raise THEN Raise ELSE <<prod[1]>>
    IN  IF ~labelled THEN uncond_out
        ELSE IF cond_out = Raise THEN Raise
        ELSE Broadcast(uncond_out, <<1, cond_out[1]>>)
DHead(m, x, labelled, ylen) ==
    LET pooled == SumSpatial(x)
        uncond_out == ApplyLinear(m.proj_o, pooled)
        \* self.shared_emb(y) is [len(y), 16 * base_channels]
        prod == Broadcast(<<ylen, m.shared_emb.out>>, pooled)
        \* torch.sum(., dim=1, keepdim=True)
        cond_out == IF prod = Raise THEN Raise ELSE <<prod[1], 1>>
    IN  IF ~labelled THEN uncond_out ELSE Broadcast(uncond_out, cond_out)

----------------------------------------------------------------------------
(* The wrapped layers the head calls: proj_o, and with a label the         *)
(* embedding, which is looked up once proj_o has returned.                 *)
DHeadHooks(m, x, labelled) ==
    {"proj_o"}
    \cup (IF labelled /\ ApplyLinear(m.proj_o, SumSpatial(x)) # Raise
          THEN {"shared_emb"} ELSE {})

----------------------------------------------------------------------------
(* The state machine: the sample forward pass (a Generator.forward, then   *)
(* a Discriminator.forward on its result), a Discriminator.forward on an   *)
(* image batch, and forwards of the single blocks.                         *)

NoCall == [kind |-> "none", ok |-> TRUE]
NoOut == [fn |-> "none", ok |-> TRUE, shape |-> <<>>]
NoInp == [B |-> 0, labelled |-> FALSE, generated |-> FALSE, x |-> <<>>]

ImageSides == {32, 64, 100, 128}

(* The weight and the buffers the spectral-normalisation wrappers are      *)
(* followed from: u and v are drawn at random at construction; the last    *)
(* entry is a pair the power iteration has converged to.                   *)
SNProbes ==
    {[weight_orig |-> <<<<1, 1>>, <<0, 1>>>>, u |-> <<1, 0>>, v |-> <<-1, 1>>],
     [weight_orig |-> <<<<2, 0>>, <<0, 1>>>>, u |-> <<1, 0>>, v |-> <<1, 0>>]}

NoHooks == [k \in {} |-> [u |-> <<0, 0>>, v |-> <<0, 0>>]]

Init ==
    /\ \E bc \in BaseChannelsSet, bw \in 1..MaxBottomWidth,
          zd \in ZDimSet, sd \in SharedDimSet :
          /\ gen = Generator(bc, bw, zd, sd, NClasses)
          /\ disc = Discriminator(bc, NClasses)
    /\ \E p \in SNProbes : sn = [init |-> p, bufs |-> NoHooks]
    /\ pc = "idle"
    /\ idx = 0
    /\ inp = NoInp
    /\ h = <<>>
    /\ zs = <<>>
    /\ ys = <<>>
    /\ call = NoCall
    /\ used = {}
    /\ out = NoOut

(* A forward that raises: nothing is returned and the locals are gone.     *)
Raised(fn, at) ==
    /\ pc' = "raised"
    /\ out' = [fn |-> fn, ok |-> FALSE, shape |-> <<>>, at |-> at]
    /\ h' = <<>>
    /\ zs' = <<>>
    /\ ys' = <<>>
    /\ idx' = 0

(* generator(z, y_emb) is called with a batch of B noise vectors and the   *)
(* B class embeddings.                                                     *)
GeneratorCall ==
    /\ pc = "idle"
    /\ \E B \in 1..MaxBatch : inp' = [NoInp EXCEPT !.B = B]
    /\ pc' = "g_split"
    /\ used' = {}
    /\ UNCHANGED <<gen, disc, sn, idx, h, zs, ys, call, out>>

(* zs = torch.split(z, self.z_chunk_size, dim=1); z = zs[0]; ys = [...]    *)
GeneratorSplit ==
    /\ pc = "g_split"
    /\ LET sp == TorchSplit(ZCols(gen.z_dim), gen.z_chunk_size)
       IN  IF sp.ok
           THEN /\ zs' = sp.chunks
                /\ ys' = CondVectors(YCols(gen.shared_dim), sp.chunks)
                /\ pc' = "g_proj"
                /\ UNCHANGED <<idx, h, out>>
           ELSE Raised("Generator", "split")
    /\ UNCHANGED <<gen, disc, sn, inp, call, used>>

(* h = self.proj_z(z); h = h.view(h.size(0), -1, bottom_width, bottom_width) *)
ProjZ(g, z) ==
    LET lin == ApplyLinear(g.proj_z, z)
        v == View(lin, <<g.bottom_width, g.bottom_width>>)
    IN  IF v = Raise \/ v[1] % lin[1] # 0 THEN Raise
        ELSE <<lin[1], v[1] \div lin[1], g.bottom_width, g.bottom_width>>

GeneratorProject ==
    /\ pc = "g_proj"
    /\ LET r == Res(ProjZ(gen, <<inp.B, Len(zs[1])>>))
       IN  IF r.ok
           THEN /\ h' = r.shape
                /\ idx' = 1
                /\ pc' = "g_res"
                /\ call' = [kind |-> "proj_z", ok |-> TRUE, z |-> zs[1]]
                /\ UNCHANGED <<zs, ys, out>>
           ELSE /\ Raised("Generator", "proj_z")
                /\ call' = [kind |-> "proj_z", ok |-> FALSE, z |-> zs[1]]
    /\ used' = used \cup {Use("proj_z", gen.proj_z)}
    /\ UNCHANGED <<gen, disc, sn, inp>>

(* h = g_block[0](h, ys[idx]); the source's idx counts from 0.             *)
GeneratorResidual ==
    /\ pc = "g_res"
    /\ IF idx > Len(ys)
       THEN /\ Raised("Generator", "ys[idx]")
            /\ UNCHANGED <<call, used, sn>>
       ELSE LET m == gen.g_blocks[idx].res
                y == <<inp.B, Len(ys[idx])>>
                r == GResidualForward(m, h, y, training)
            IN  /\ call' = r @@ [stage |-> idx, y |-> ys[idx]]
                /\ used' = used \cup GResidualUses("g_blocks.res", m)
                /\ sn' = SpectralNormHooks(sn,
                             Keys("Generator", idx,
                                  GResidualHooks("g_blocks.res", m, h, y, training)),
                             training)
                /\ IF r.ok
                   THEN /\ h' = r.shape
                        /\ pc' = "g_attn"
                        /\ UNCHANGED <<idx, zs, ys, out>>
                   ELSE Raised("Generator", "g_block[0]")
    /\ UNCHANGED <<gen, disc, inp>>

(* h = g_block[1](h)                                                       *)
GeneratorAttention ==
    /\ pc = "g_attn"
    /\ LET m == gen.g_blocks[idx].attn
           r == AttentionForward(m, h)
       IN  /\ call' = r @@ [stage |-> idx]
           /\ used' = used \cup AttentionUses("g_blocks.attn", m)
           /\ sn' = SpectralNormHooks(sn,
                        Keys("Generator", idx, AttentionHooks("g_blocks.attn", m, h)),
                        training)
           /\ IF r.ok
              THEN /\ h' = r.shape
                   /\ idx' = IF idx < Len(gen.g_blocks) THEN idx + 1 ELSE 0
                   /\ pc' = IF idx < Len(gen.g_blocks) THEN "g_res" ELSE "g_out"
                   /\ UNCHANGED <<zs, ys, out>>
              ELSE Raised("Generator", "g_block[1]")
    /\ UNCHANGED <<gen, disc, inp>>

(* h = self.proj_o(h): BatchNorm2d, ReLU, 1x1 convolution to RGB, Tanh.    *)
ProjO(g, x) == ApplyConv(g.proj_o.conv, BatchNorm2d(g.proj_o.bn, x, training))

ProjOHooks(g, x) ==
    IF BatchNorm2d(g.proj_o.bn, x, training) = Raise THEN {} ELSE {"proj_o"}

GeneratorOutput ==
    /\ pc = "g_out"
    /\ LET r == Res(ProjO(gen, h))
       IN  IF r.ok
           THEN /\ out' = [fn |-> "Generator", ok |-> TRUE, shape |-> r.shape]
                /\ pc' = "g_done"
                /\ h' = <<>>
                /\ zs' = <<>>
                /\ ys' = <<>>
                /\ UNCHANGED idx
           ELSE Raised("Generator", "proj_o")
    /\ used' = used \cup {Use("proj_o", gen.proj_o.conv)}
    /\ sn' = SpectralNormHooks(sn, Keys("Generator", 0, ProjOHooks(gen, h)), training)
    /\ UNCHANGED <<gen, disc, inp, call>>

(* score = discriminator(x_gen, y), or discriminator(x_gen): the generated *)
(* batch is scored, with the B labels or without a label.                  *)
DiscriminatorCallGenerated ==
    /\ pc = "g_done"
    /\ \E labelled \in BOOLEAN :
          inp' = [B |-> inp.B, labelled |-> labelled, generated |-> TRUE,
                  x |-> out.shape]
    /\ h' = out.shape
    /\ idx' = 1
    /\ pc' = "d_res"
    /\ used' = {}
    /\ UNCHANGED <<gen, disc, sn, zs, ys, call, out>>

(* discriminator(x, y) on a batch of B images of R x R pixels.             *)
DiscriminatorCallImage ==
    /\ pc = "idle"
    /\ \E B \in 1..MaxBatch, R \in ImageSides, labelled \in BOOLEAN :
          /\ inp' = [B |-> B, labelled |-> labelled, generated |-> FALSE,
                     x |-> <<B, RGB, R, R>>]
          /\ h' = <<B, RGB, R, R>>
    /\ idx' = 1
    /\ pc' = "d_res"
    /\ used' = {}
    /\ UNCHANGED <<gen, disc, sn, zs, ys, call, out>>

(* self.d_blocks(x): the residual block of stage idx.                      *)
DiscriminatorResidual ==
    /\ pc = "d_res"
    /\ LET m == disc.d_blocks[idx].res
           r == DResidualForward(m, h)
       IN  /\ call' = r @@ [stage |-> idx]
           /\ used' = used \cup DResidualUses("d_blocks.res", m)
           /\ sn' = SpectralNormHooks(sn,
                        Keys("Discriminator", idx, DResidualHooks("d_blocks.res", m, h)),
                        training)
           /\ IF r.ok
              THEN /\ h' = r.shape
                   /\ pc' = "d_attn"
                   /\ UNCHANGED <<idx, zs, ys, out>>
              ELSE Raised("Discriminator", "d_blocks.res")
    /\ UNCHANGED <<gen, disc, inp>>

(* self.d_blocks(x): the attention block of stage idx; the ReLU that ends  *)
(* d_blocks keeps the shape.                                               *)
DiscriminatorAttention ==
    /\ pc = "d_attn"
    /\ LET m == disc.d_blocks[idx].attn
           r == AttentionForward(m, h)
       IN  /\ call' = r @@ [stage |-> idx]
           /\ used' = used \cup AttentionUses("d_blocks.attn", m)
           /\ sn' = SpectralNormHooks(sn,
                        Keys("Discriminator", idx, AttentionHooks("d_blocks.attn", m, h)),
                        training)
           /\ IF r.ok
              THEN /\ h' = r.shape
                   /\ idx' = IF idx < Len(disc.d_blocks) THEN idx + 1 ELSE 0
                   /\ pc' = IF idx < Len(disc.d_blocks) THEN "d_res" ELSE "d_head"
                   /\ UNCHANGED <<zs, ys, out>>
              ELSE Raised("Discriminator", "d_blocks.attn")
    /\ UNCHANGED <<gen, disc, inp>>

(* The sum over the spatial dimensions, proj_o and, with a label, the      *)
(* embedding's contribution.                                               *)
DiscriminatorScore ==
    /\ pc = "d_head"
    /\ LET r == Res(DHead(disc, h, inp.labelled, inp.B))
       IN  IF r.ok
           THEN /\ out' = [fn |-> "Discriminator", ok |-> TRUE, shape |-> r.shape]
                /\ pc' = "d_done"
                /\ h' = <<>>
                /\ UNCHANGED <<idx, zs, ys>>
           ELSE Raised("Discriminator", "head")
    /\ used' = used \cup {Use("proj_o", disc.proj_o)}
                    \cup (IF inp.labelled
                          THEN {Use("shared_emb", disc.shared_emb)} ELSE {})
    /\ sn' = SpectralNormHooks(sn,
                 Keys("Discriminator", 0, DHeadHooks(disc, h, inp.labelled)),
                 training)
    /\ UNCHANGED <<gen, disc, inp, call>>

Next ==
    \/ GeneratorCall
    \/ GeneratorSplit
    \/ GeneratorProject
    \/ GeneratorResidual
    \/ GeneratorAttention
    \/ GeneratorOutput
    \/ DiscriminatorCallGenerated
    \/ DiscriminatorCallImage
    \/ DiscriminatorResidual
    \/ DiscriminatorAttention
    \/ DiscriminatorScore

Spec == Init /\ [][Next]_vars

----------------------------------------------------------------------------
(* Forwards of the single blocks, each on inputs of its own.               *)

(* The networks of the source's set-up: base_channels = 96, z_dim = 120,   *)
(* shared_dim = 128, bottom_width = 4.                                     *)
SampleGenerator == Generator(96, 4, 120, 128, NClasses)
SampleDiscriminator == Discriminator(96, NClasses)

BlockInit ==
    /\ gen = SampleGenerator
    /\ disc = SampleDiscriminator
    /\ \E p \in SNProbes : sn = [init |-> p, bufs |-> NoHooks]
    /\ pc = "idle"
    /\ idx = 0
    /\ inp = NoInp
    /\ h = <<>>
    /\ zs = <<>>
    /\ ys = <<>>
    /\ call = NoCall
    /\ used = {}
    /\ out = NoOut

Returned(fn, r) ==
    /\ pc' = IF r.ok THEN "returned" ELSE "raised"
    /\ out' = [fn |-> fn, ok |-> r.ok, shape |-> r.shape]
    /\ UNCHANGED <<gen, disc, idx, inp, h, zs, ys>>

CondDims == {2, 3}

(* GResidualBlock(c_dim, Cin, Cout)(x, y), x of shape [B, Cin, H, W] and y *)
(* of shape [B, D].                                                        *)
GResidualBlockCall ==
    /\ pc = "idle"
    /\ \E B \in 1..MaxBatch, cin \in 1..MaxChannels, cout \in 1..MaxChannels,
          H \in 1..MaxSide, W \in 1..MaxSide, D \in CondDims :
          LET m == GResidualBlock(2, cin, cout)
              r == GResidualForward(m, <<B, cin, H, W>>, <<B, D>>, training)
          IN  /\ call' = r
              /\ used' = GResidualUses("res", m)
              /\ sn' = SpectralNormHooks(sn,
                           Keys("GResidualBlock", 0,
                                GResidualHooks("res", m, <<B, cin, H, W>>,
                                               <<B, D>>, training)),
                           training)
              /\ Returned("GResidualBlock", r)

(* DResidualBlock(Cin, Cout, downsample, use_preactivation)(x).            *)
DResidualBlockCall ==
    /\ pc = "idle"
    /\ \E B \in 1..MaxBatch, cin \in 1..MaxChannels, cout \in 1..MaxChannels,
          H \in 1..MaxSide, W \in 1..MaxSide,
          downsample \in BOOLEAN, use_preactivation \in BOOLEAN :
          LET m == DResidualBlock(cin, cout, downsample, use_preactivation)
              r == DResidualForward(m, <<B, cin, H, W>>)
          IN  /\ call' = r @@ [downsample |-> downsample,
                               use_preactivation |-> use_preactivation]
              /\ used' = DResidualUses("res", m)
              /\ sn' = SpectralNormHooks(sn,
                           Keys("DResidualBlock", 0,
                                DResidualHooks("res", m, <<B, cin, H, W>>)),
                           training)
              /\ Returned("DResidualBlock", r)

AttnChannelsSet == {4, 8, 12, 16}
Gammas == {Fin(0), Fin(1), Fin(-2)}
XValues == {Fin(-2), Fin(0), Fin(3)}
(* An element of o = self.o(..) is any float: the weights are free, an     *)
(* all-zero weight is divided by its spectral norm 0 into NaNs, and large  *)
(* finite values overflow.                                                *)
OValues == {Fin(-1), Fin(0), Fin(5), Inf(1), Inf(-1), NaN}

(* AttentionBlock(channels)(x) with the gain at gamma; xe and oe are the   *)
(* elements of x and of o at one and the same position, any position.      *)
AttentionBlockCall ==
    /\ pc = "idle"
    /\ \E B \in 1..MaxBatch, channels \in AttnChannelsSet,
          H \in 1..MaxSide, W \in 1..MaxSide,
          gamma \in Gammas, xe \in XValues, oe \in OValues :
          LET m == [AttentionBlock(channels) EXCEPT !.gamma = gamma]
              r == AttentionForward(m, <<B, channels, H, W>>)
          IN  /\ call' = r @@ [gamma |-> gamma, xe |-> xe, oe |-> oe,
                               oute |-> IF r.ok THEN GainResidual(gamma, oe, xe)
                                        ELSE NaN]
              /\ used' = AttentionUses("attn", m)
              /\ sn' = SpectralNormHooks(sn,
                           Keys("AttentionBlock", 0,
                                AttentionHooks("attn", m, <<B, channels, H, W>>)),
                           training)
              /\ Returned("AttentionBlock", r)

----------------------------------------------------------------------------
(* Discriminator.forward after d_blocks, with values: h is [B, C, H, W]    *)
(* given as h[b][c], the sequence of the H*W values of channel c.          *)

RECURSIVE SeqSum(_)
SeqSum(q) == IF q = <<>> THEN 0 ELSE Head(q) + SeqSum(Tail(q))

Mul(a, b) == [i \in 1..Len(a) |-> a[i] * b[i]]

DScoreUncondOnly(W, bias, emb, hv, labelled, y) ==
    LET pooled == [b \in 1..Len(hv) |-> [c \in 1..Len(hv[b]) |-> SeqSum(hv[b][c])]]
        uncond_out == [b \in 1..Len(hv) |-> <<SeqSum(Mul(W, pooled[b])) + bias>>]
    IN  [pooled |-> pooled, uncond_out |-> uncond_out, score |-> uncond_out]
DScoreRowZero(W, bias, emb, hv, labelled, y) ==
    LET pooled == [b \in 1..Len(hv) |-> [c \in 1..Len(hv[b]) |-> SeqSum(hv[b][c])]]
        uncond_out == [b \in 1..Len(hv) |-> <<SeqSum(Mul(W, pooled[b])) + bias>>]
        cond_out == [b \in 1..Len(hv) |-> <<SeqSum(Mul(emb[1], pooled[b]))>>]
    IN  [pooled |-> pooled, uncond_out |-> uncond_out,
         score |-> IF ~labelled THEN uncond_out
                   ELSE [b \in 1..Len(hv) |-> <<uncond_out[b][1] + cond_out[b][1]>>]]
DScore(W, bias, emb, hv, labelled, y) ==
    LET pooled == [b \in 1..Len(hv) |-> [c \in 1..Len(hv[b]) |-> SeqSum(hv[b][c])]]
        uncond_out == [b \in 1..Len(hv) |-> <<SeqSum(Mul(W, pooled[b])) + bias>>]
        \* self.shared_emb(y): row y[b] of the table, the rows counted from 0
        rows == [b \in 1..Len(hv) |-> emb[y[b] + 1]]
        cond_out == [b \in 1..Len(hv) |-> <<SeqSum(Mul(rows[b], pooled[b]))>>]
    IN  [pooled |-> pooled, uncond_out |-> uncond_out,
         score |-> IF ~labelled THEN uncond_out
                   ELSE [b \in 1..Len(hv) |-> <<uncond_out[b][1] + cond_out[b][1]>>]]

HeadChannelsSet == {1, 2}
ChannelValues == {<<2>>, <<-1, 2>>, <<0, 3>>}
ProjWeights == {<<2, -1>>, <<1, 3>>}
EmbTables == {[k \in 1..NClasses |-> <<k, 1 - 2 * k>>],
              [k \in 1..NClasses |-> <<2 - k, k + 1>>]}

(* The head of Discriminator.forward on the features hv, without a label   *)
(* (y is None) or with the labels y; the width C stands for                *)
(* 16 * base_channels.                                                     *)
DiscriminatorHeadCall ==
    /\ pc = "idle"
    /\ \E B \in 1..MaxBatch, C \in HeadChannelsSet :
       \E hv \in [1..B -> [1..C -> ChannelValues]],
          W0 \in ProjWeights, emb0 \in EmbTables,
          labelled \in BOOLEAN, y \in [1..B -> 0..(NClasses - 1)] :
          LET W == SubSeq(W0, 1, C)
              emb == [k \in 1..NClasses |-> SubSeq(emb0[k], 1, C)]
              r == DScore(W, 1, emb, hv, labelled, y)
          IN  /\ ~labelled => y = [b \in 1..B |-> 0]
              /\ call' = r @@ [kind |-> "dscore", ok |-> TRUE, W |-> W, bias |-> 1,
                               emb |-> emb, hv |-> hv, labelled |-> labelled,
                               y |-> y]
              /\ used' = {Use("proj_o", disc.proj_o)}
                         \cup (IF labelled THEN {Use("shared_emb", disc.shared_emb)}
                               ELSE {})
              /\ sn' = SpectralNormHooks(sn,
                           Keys("Discriminator", 0,
                                {"proj_o"} \cup (IF labelled THEN {"shared_emb"}
                                                 ELSE {})),
                           training)
              /\ Returned("Discriminator", Res(<<B, 1>>))

----------------------------------------------------------------------------
(* ClassConditionalBatchNorm2d.forward with values, at one position        *)
(* [b, c, i, j]: S and T are row c of the weights of class_scale_transform *)
(* and class_shift_transform as the layers apply them (bias=False), y is   *)
(* row b of the conditioning batch and n the element of self.bn(x).        *)

CCBNValueNoOne(S, T, y, n) ==
    FAdd(FMul(Fin(SeqSum(Mul(S, y))), n), Fin(SeqSum(Mul(T, y))))
CCBNValue(S, T, y, n) ==
    LET class_scale == Fin(1 + SeqSum(Mul(S, y)))
        class_shift == Fin(SeqSum(Mul(T, y)))
    IN  FAdd(FMul(class_scale, n), class_shift)

WeightRows == {<<2, -1>>, <<0, 3>>, <<-1, -1>>}
CondVectorValues == {<<0, 0, 0>>, <<1, -1, 2>>, <<0, 2, 1>>}
NormalizedValues == {Fin(-2), Fin(0), Fin(3), Inf(-1), NaN}

(* ClassConditionalBatchNorm2d(2, C)(x, y), x of shape [B, C, H, W] and y  *)
(* of shape [B, D]; the element of self.bn(x) is made before y is looked   *)
(* at and whatever y is.                                                   *)
ClassConditionalBatchNormCall ==
    /\ pc = "idle"
    /\ \E B \in 1..MaxBatch, C \in 1..MaxChannels, H \in {1, MaxSide},
          D \in CondDims, S \in WeightRows, T \in WeightRows,
          y0 \in CondVectorValues, n \in NormalizedValues :
          LET m == ClassConditionalBatchNorm2d(2, C)
              x == <<B, C, H, H>>
              y == SubSeq(y0, 1, D)
              r == Res(CCBNForward(m, x, <<B, D>>, training))
          IN  /\ call' = [kind |-> "ccbn", ok |-> r.ok, shape |-> r.shape,
                          x |-> x, S |-> S, T |-> T, y |-> y, normalized |-> n,
                          oute |-> IF r.ok THEN CCBNValue(S, T, y, n) ELSE NaN]
              /\ used' = CCBNUses("bn", m)
              /\ sn' = SpectralNormHooks(sn,
                           Keys("ClassConditionalBatchNorm2d", 0,
                                CCBNHooks("bn", m, x, <<B, D>>, training)),
                           training)
              /\ Returned("ClassConditionalBatchNorm2d", r)

----------------------------------------------------------------------------
(* orthogonal_regularization.                                              *)

(* weight.flatten(1): the dimensions from 1 on are made one; a tensor of   *)
(* one dimension has no dimension 1.                                       *)
Flatten1(w) == IF Len(w) < 2 THEN Raise ELSE <<w[1], Prod(Tail(w))>>

(* torch.dot(a, b): both of one dimension and of one length; the result is *)
(* a scalar.                                                               *)
TorchDot(a, b) == Len(a) = 1 /\ Len(b) = 1 /\ a[1] = b[1]

(* torch.ones_like(weight) - torch.eye(weight.shape[0]).                   *)
OffDiagonalMask(flat) == Broadcast(flat, <<flat[1], flat[1]>>)

(* The operations are evaluated in the order flatten, dot, mask, product,  *)
(* norm; at is the one that raises.                                        *)
orthogonal_regularization(weight) ==
    LET flat == Flatten1(weight)
        at == IF flat = Raise THEN "flatten"
              ELSE IF ~TorchDot(flat, flat) THEN "dot"
              ELSE IF OffDiagonalMask(flat) = Raise THEN "mask"
              ELSE "none"
    IN  [kind |-> "ortho", ok |-> at = "none", shape |-> <<>>,
         weight |-> weight, flat |-> flat, at |-> at]

(* The weights of the layers of the source: a vector, a matrix, the        *)
(* kernels of a 1x1 and of a 3x3 convolution.                              *)
WeightShapes ==
    UNION {{<<n>>, <<n, k>>, <<n, k, 1, 1>>, <<n, k, 3, 3>>} :
              n \in 1..MaxChannels, k \in 1..MaxChannels}

OrthogonalRegularizationCall ==
    /\ pc = "idle"
    /\ \E weight \in WeightShapes :
          LET r == orthogonal_regularization(weight)
          IN  /\ call' = r
              /\ Returned("orthogonal_regularization", r)
    /\ used' = {}
    /\ UNCHANGED sn

BlockNext ==
    \/ GResidualBlockCall
    \/ DResidualBlockCall
    \/ AttentionBlockCall
    \/ DiscriminatorHeadCall
    \/ ClassConditionalBatchNormCall
    \/ OrthogonalRegularizationCall

BlockSpec == BlockInit /\ [][BlockNext]_vars

----------------------------------------------------------------------------
(* The InfoGAN networks of                                                 *)
(* src/Build basic GANs/week4-ConditionalGANAndControllableGeneration/     *)
(* C1W4_(Optional_Notebook)_InfoGAN.py, by their shapes.                   *)

MaxCDim == 2
MaxTrainSteps == 2

(* The script's mnist_shape and the defaults of the constructors.          *)
mnist_shape == <<1, 28, 28>>
DefaultImChan == 1
DefaultHiddenDim == 64

(* nn.ConvTranspose2d and nn.Conv2d with a kernel size and a stride, no    *)
(* padding.                                                                *)
ConvTranspose2d(cin, cout, kernel_size, stride) ==
    [kind |-> "convT", in |-> cin, out |-> cout,
     kernel_size |-> kernel_size, stride |-> stride]
StridedConv2d(cin, cout, kernel_size, stride) ==
    [kind |-> "conv", in |-> cin, out |-> cout,
     kernel_size |-> kernel_size, stride |-> stride]

ApplyConvTranspose(layer, x) ==
    IF x = Raise THEN Raise
    ELSE IF x[2] # layer.in THEN Raise
    ELSE <<x[1], layer.out,
           (x[3] - 1) * layer.stride + layer.kernel_size,
           (x[4] - 1) * layer.stride + layer.kernel_size>>

(* A kernel larger than the input raises.                                  *)
ApplyStridedConv(layer, x) ==
    IF x = Raise THEN Raise
    ELSE IF x[2] # layer.in THEN Raise
    ELSE IF x[3] < layer.kernel_size \/ x[4] < layer.kernel_size THEN Raise
    ELSE <<x[1], layer.out,
           (x[3] - layer.kernel_size) \div layer.stride + 1,
           (x[4] - layer.kernel_size) \div layer.stride + 1>>

(* Generator.make_gen_block: a transposed convolution, then a batch        *)
(* normalisation and a ReLU, or in the final layer a Tanh.                 *)
make_gen_block(input_channels, output_channels, kernel_size, stride, final_layer) ==
    [conv |-> ConvTranspose2d(input_channels, output_channels, kernel_size, stride),
     bn |-> output_channels,
     final_layer |-> final_layer]

(* Discriminator.make_disc_block: a convolution, then except in the      *)
(* final layer a batch normalisation and a LeakyReLU.                      *)
make_disc_block(input_channels, output_channels, kernel_size, stride, final_layer) ==
    [conv |-> StridedConv2d(input_channels, output_channels, kernel_size, stride),
     bn |-> output_channels,
     final_layer |-> final_layer]

GenBlockForward(b, x, train) ==
    IF b.final_layer THEN ApplyConvTranspose(b.conv, x)
    ELSE BatchNorm2d(b.bn, ApplyConvTranspose(b.conv, x), train)

DiscBlockForward(b, x, train) ==
    IF b.final_layer THEN ApplyStridedConv(b.conv, x)
    ELSE BatchNorm2d(b.bn, ApplyStridedConv(b.conv, x), train)

(* nn.Sequential of blocks.                                                *)
RECURSIVE GenSequential(_, _, _)
GenSequential(blocks, x, train) ==
    IF blocks = <<>> THEN x
    ELSE GenSequential(Tail(blocks), GenBlockForward(Head(blocks), x, train), train)

RECURSIVE DiscSequential(_, _, _)
DiscSequential(blocks, x, train) ==
    IF blocks = <<>> THEN x
    ELSE DiscSequential(Tail(blocks), DiscBlockForward(Head(blocks), x, train), train)

(* Generator(input_dim, im_chan, hidden_dim); the second and the fourth    *)
(* block are given kernel_size=4, the second stride=1, the others the      *)
(* defaults kernel_size=3, stride=2.                                       *)
InfoGeneratorSmallKernel(input_dim, im_chan, hidden_dim) ==
    [input_dim |-> input_dim,
     gen |-> <<make_gen_block(input_dim, hidden_dim * 4, 3, 2, FALSE),
               make_gen_block(hidden_dim * 4, hidden_dim * 2, 4, 1, FALSE),
               make_gen_block(hidden_dim * 2, hidden_dim, 3, 2, FALSE),
               make_gen_block(hidden_dim, im_chan, 3, 2, TRUE)>>]
InfoGenerator(input_dim, im_chan, hidden_dim) ==
    [input_dim |-> input_dim,
     gen |-> <<make_gen_block(input_dim, hidden_dim * 4, 3, 2, FALSE),
               make_gen_block(hidden_dim * 4, hidden_dim * 2, 4, 1, FALSE),
               make_gen_block(hidden_dim * 2, hidden_dim, 3, 2, FALSE),
               make_gen_block(hidden_dim, im_chan, 4, 2, TRUE)>>]

(* Generator.forward: noise.view(len(noise), self.input_dim, 1, 1), then   *)
(* self.gen.                                                               *)
InfoGeneratorForward(g, noise, train) ==
    LET x == IF noise = Raise \/ Numel(noise) # noise[1] * g.input_dim THEN Raise
             ELSE <<noise[1], g.input_dim, 1, 1>>
    IN  GenSequential(g.gen, x, train)

(* Discriminator(im_chan, hidden_dim, c_dim); the blocks have the defaults *)
(* kernel_size=4, stride=2, the last of q_layer kernel_size=1.             *)
InfoDiscriminator(im_chan, hidden_dim, c_dim) ==
    [disc |-> <<make_disc_block(im_chan, hidden_dim, 4, 2, FALSE),
                make_disc_block(hidden_dim, hidden_dim * 2, 4, 2, FALSE)>>,
     d_layer |-> <<make_disc_block(hidden_dim * 2, 1, 4, 2, TRUE)>>,
     q_layer |-> <<make_disc_block(hidden_dim * 2, hidden_dim * 2, 4, 2, FALSE),
                   make_disc_block(hidden_dim * 2, 2 * c_dim, 1, 2, TRUE)>>]

(* t.view(len(t), -1)                                                      *)
Flat(t) == IF t = Raise THEN Raise ELSE <<t[1], Numel(t) \div t[1]>>

(* Discriminator.forward returns the pair (disc_pred, q_pred), each made   *)
(* flat.                                                                   *)
InfoDiscriminatorForward(d, image, train) ==
    LET intermediate_pred == DiscSequential(d.disc, image, train)
        disc_pred == DiscSequential(d.d_layer, intermediate_pred, train)
        q_pred == DiscSequential(d.q_layer, intermediate_pred, train)
    IN  [ok |-> disc_pred # Raise /\ q_pred # Raise,
         disc_pred |-> Flat(disc_pred),
         q_pred |-> Flat(q_pred)]

(* get_noise(n_samples, input_dim) and combine_vectors(x, y), a            *)
(* torch.cat along dimension 1.                                            *)
get_noise(n_samples, input_dim) == <<n_samples, input_dim>>
combine_vectors(x, y) ==
    IF x = Raise \/ y = Raise \/ x[1] # y[1] THEN Raise ELSE <<x[1], x[2] + y[2]>>

(* t[:, :k] and t[:, k:]                                                   *)
SliceTo(t, k) == <<t[1], IF k < t[2] THEN k ELSE t[2]>>
SliceFrom(t, k) == <<t[1], IF k < t[2] THEN t[2] - k ELSE 0>>

(* c_criterion(c_true, mean, logvar): Normal(mean, logvar.exp()) and       *)
(* log_prob(c_true) broadcast their arguments; TRUE when neither raises.   *)
c_criterion(c_true, mean, logvar) == Broadcast(Broadcast(mean, logvar), c_true) # Raise

----------------------------------------------------------------------------
(* Calls of the InfoGAN networks on their own: one network of each class   *)
(* is constructed, then one forward is made. The variables are those of    *)
(* the specifications above: gen and disc are the networks, used holds the *)
(* construction's dimensions, call the forward's record.                   *)

InfoZDims == {2, 64}
InfoImChans == {1, RGB}
InfoHiddenDims == {1, DefaultHiddenDim}
InfoImageSides == {12, mnist_shape[2], 30}

NetInit ==
    /\ \E z_dim \in InfoZDims, c_dim \in 1..MaxCDim,
          im_chan \in InfoImChans, hidden_dim \in InfoHiddenDims :
          /\ gen = InfoGenerator(z_dim + c_dim, im_chan, hidden_dim)
          /\ disc = InfoDiscriminator(im_chan, hidden_dim, c_dim)
          /\ used = [z_dim |-> z_dim, c_dim |-> c_dim, im_chan |-> im_chan]
    /\ sn = NoHooks
    /\ pc = "idle"
    /\ idx = 0
    /\ inp = NoInp
    /\ h = <<>>
    /\ zs = <<>>
    /\ ys = <<>>
    /\ call = NoCall
    /\ out = NoOut

(* gen(noise)                                                              *)
InfoGeneratorCall ==
    /\ pc = "idle"
    /\ \E n \in 1..MaxBatch :
       \E noise \in {<<n, gen.input_dim>>, <<n, gen.input_dim, 1, 1>>,
                     <<n, gen.input_dim + 1>>} :
          LET r == InfoGeneratorForward(gen, noise, training)
          IN  /\ call' = [kind |-> "info_gen", noise |-> noise,
                          ok |-> r # Raise, shape |-> r]
              /\ Returned("Generator.forward", Res(r))
    /\ UNCHANGED <<sn, used>>

(* disc_fake_pred, disc_q_pred = disc(image), then the slices of the       *)
(* training loop, beside a latent code c_labels of the batch.              *)
InfoDiscriminatorCall ==
    /\ pc = "idle"
    /\ \E n \in 1..MaxBatch, c \in {used.im_chan, used.im_chan + 1},
          side \in InfoImageSides :
          LET image == <<n, c, side, side>>
              r == InfoDiscriminatorForward(disc, image, training)
          IN  /\ call' = [kind |-> "info_disc", image |-> image, ok |-> r.ok,
                          disc_pred |-> r.disc_pred,
                          q_pred |-> r.q_pred,
                          c_labels |-> get_noise(n, used.c_dim),
                          disc_q_mean |-> IF r.ok THEN SliceTo(r.q_pred, used.c_dim)
                                          ELSE Raise,
                          disc_q_logvar |-> IF r.ok THEN SliceFrom(r.q_pred, used.c_dim)
                                            ELSE Raise]
              /\ Returned("Discriminator.forward",
                          [ok |-> r.ok,
                           shape |-> IF r.ok THEN <<r.disc_pred, r.q_pred>> ELSE Raise])
    /\ UNCHANGED <<sn, used>>

NetNext ==
    \/ InfoGeneratorCall
    \/ InfoDiscriminatorCall

NetSpec == NetInit /\ [][NetNext]_vars

----------------------------------------------------------------------------
(* The InfoGAN training loop. gen and disc hold a network with what the    *)
(* optimisers see of it: params, the gradients that have been applied to   *)
(* its parameters; grad, the gradients accumulated in the .grad of its     *)
(* parameters; opt, the moments Adam keeps for them. A gradient is         *)
(* <<loss, cur_step>>, the loss it is the gradient of and the iteration in *)
(* which backward computed it. idx is cur_step, inp the batch, h the fake  *)
(* batch with the parameters its graph reaches, call the last loss, out    *)
(* the last optimiser step.                                                *)

Module(net) == [net |-> net, params |-> {}, grad |-> {}, opt |-> {}]

(* The DataLoader's batches: 60000 images in batches of batch_size = 128,  *)
(* the last one of 96; never a batch of one image.                         *)
TrainBatchSizes == 2..(MaxBatch + 1)

TrainInit ==
    /\ \E z_dim \in InfoZDims, c_dim \in 1..MaxCDim :
          /\ gen = Module(InfoGenerator(z_dim + c_dim, DefaultImChan, DefaultHiddenDim))
          /\ disc = Module(InfoDiscriminator(mnist_shape[1], DefaultHiddenDim, c_dim))
          /\ used = [z_dim |-> z_dim, c_dim |-> c_dim, im_chan |-> mnist_shape[1]]
    /\ sn = NoHooks
    /\ pc = "batch"
    /\ idx = 0
    /\ inp = NoInp
    /\ h = <<>>
    /\ zs = <<>>
    /\ ys = <<>>
    /\ call = NoCall
    /\ out = NoOut

(* tensor.detach(): the same values, cut from the graph.                   *)
NoDetach(t) == t
Detach(t) == [t EXCEPT !.deps = {}]

(* optimizer.zero_grad(), loss.backward() as it reaches the parameters of  *)
(* a network, optimizer.step() of Adam: parameters without a gradient are  *)
(* skipped.                                                                *)
ZeroGrad(m) == [m EXCEPT !.grad = {}]
Backward(m, owner, deps, g) ==
    IF owner \in deps THEN [m EXCEPT !.grad = @ \cup {g}] ELSE m
Step(m) ==
    IF m.grad = {} THEN m
    ELSE [m EXCEPT !.opt = @ \cup m.grad, !.params = @ \cup m.opt \cup m.grad]

TrainRaised(fn) ==
    /\ pc' = "raised"
    /\ out' = [fn |-> fn, ok |-> FALSE, shape |-> Raise]

(* for real, _ in dataloader: cur_batch_size = len(real); c_labels =       *)
(* get_noise(cur_batch_size, c_dim)                                        *)
TrainBatch ==
    /\ pc = "batch"
    /\ idx < MaxTrainSteps
    /\ \E n \in TrainBatchSizes :
          inp' = [cur_batch_size |-> n,
                  real |-> <<n>> \o mnist_shape,
                  c_labels |-> get_noise(n, used.c_dim)]
    /\ pc' = "disc_zero_grad"
    /\ UNCHANGED <<gen, disc, sn, idx, h, zs, ys, call, used, out>>

(* disc_opt.zero_grad()                                                    *)
DiscZeroGrad ==
    /\ pc = "disc_zero_grad"
    /\ disc' = ZeroGrad(disc)
    /\ pc' = "fake"
    /\ UNCHANGED <<gen, sn, idx, inp, h, zs, ys, call, used, out>>

(* fake = gen(combine_vectors(fake_noise, c_labels))                       *)
GenerateFake ==
    /\ pc = "fake"
    /\ LET fake_noise == get_noise(inp.cur_batch_size, used.z_dim)
           noise_and_labels == combine_vectors(fake_noise, inp.c_labels)
           fake == InfoGeneratorForward(gen.net, noise_and_labels, training)
       IN  IF fake = Raise
           THEN /\ TrainRaised("gen") /\ UNCHANGED h
           ELSE /\ h' = [shape |-> fake, deps |-> {"gen"}, freed |-> {}]
                /\ pc' = "disc_forward"
                /\ UNCHANGED out
    /\ UNCHANGED <<gen, disc, sn, idx, inp, zs, ys, call, used>>

(* The forwards of a loss: disc on the fake batch, the slices and          *)
(* c_criterion, and for the discriminator's loss disc on the real batch.   *)
(* deps are the networks whose parameters the graph of the loss reaches.   *)
Loss(name, fake, with_real) ==
    LET f == InfoDiscriminatorForward(disc.net, fake.shape, training)
        disc_q_mean == IF f.ok THEN SliceTo(f.q_pred, used.c_dim) ELSE Raise
        disc_q_logvar == IF f.ok THEN SliceFrom(f.q_pred, used.c_dim) ELSE Raise
        r == InfoDiscriminatorForward(disc.net, inp.real, training)
    IN  [kind |-> name,
         ok |-> /\ f.ok
                /\ c_criterion(inp.c_labels, disc_q_mean, disc_q_logvar)
                /\ with_real => r.ok,
         deps |-> {"disc"} \cup fake.deps,
         disc_fake_pred |-> f.disc_pred,
         disc_q_mean |-> disc_q_mean,
         disc_q_logvar |-> disc_q_logvar,
         at |-> idx]

(* disc_fake_pred, disc_q_pred = disc(fake.detach()) ... disc_loss = ...   *)
DiscForward ==
    /\ pc = "disc_forward"
    /\ LET l == Loss("disc_loss", Detach(h), TRUE)
       IN  /\ call' = l
           /\ IF l.ok THEN pc' = "disc_backward" /\ UNCHANGED out
              ELSE TrainRaised("disc")
    /\ UNCHANGED <<gen, disc, sn, idx, inp, h, zs, ys, used>>

(* disc_loss.backward(retain_graph=True): the graphs stay.                 *)
DiscBackward ==
    /\ pc = "disc_backward"
    /\ gen' = Backward(gen, "gen", call.deps, <<call.kind, idx>>)
    /\ disc' = Backward(disc, "disc", call.deps, <<call.kind, idx>>)
    /\ pc' = "disc_step"
    /\ UNCHANGED <<sn, idx, inp, h, zs, ys, call, used, out>>

(* disc_opt.step(): disc_opt holds disc.parameters().                      *)
DiscStep ==
    /\ pc = "disc_step"
    /\ disc' = Step(disc)
    /\ out' = [fn |-> "disc_opt.step", ok |-> TRUE, shape |-> <<>>,
               grads |-> disc.grad, at |-> idx]
    /\ pc' = "gen_zero_grad"
    /\ UNCHANGED <<gen, sn, idx, inp, h, zs, ys, call, used>>

(* gen_opt.zero_grad()                                                     *)
GenZeroGrad ==
    /\ pc = "gen_zero_grad"
    /\ gen' = ZeroGrad(gen)
    /\ pc' = "gen_forward"
    /\ UNCHANGED <<disc, sn, idx, inp, h, zs, ys, call, used, out>>

(* disc_fake_pred, disc_q_pred = disc(fake) ... gen_loss = ...             *)
GenForward ==
    /\ pc = "gen_forward"
    /\ LET l == Loss("gen_loss", h, FALSE)
       IN  /\ call' = l
           /\ IF l.ok THEN pc' = "gen_backward" /\ UNCHANGED out
              ELSE TrainRaised("disc")
    /\ UNCHANGED <<gen, disc, sn, idx, inp, h, zs, ys, used>>

(* gen_loss.backward(): through a graph that an earlier backward freed it  *)
(* raises; the graphs it went through are freed.                           *)
GenBackward ==
    /\ pc = "gen_backward"
    /\ IF call.deps \cap h.freed # {}
       THEN /\ TrainRaised("gen_loss.backward")
            /\ UNCHANGED <<gen, disc, h>>
       ELSE /\ gen' = Backward(gen, "gen", call.deps, <<call.kind, idx>>)
            /\ disc' = Backward(disc, "disc", call.deps, <<call.kind, idx>>)
            /\ h' = [h EXCEPT !.freed = call.deps]
            /\ pc' = "gen_step"
            /\ UNCHANGED out
    /\ UNCHANGED <<sn, idx, inp, zs, ys, call, used>>

(* gen_opt.step(): gen_opt holds gen.parameters(); then cur_step += 1 and  *)
(* the next batch.                                                         *)
GenStep ==
    /\ pc = "gen_step"
    /\ gen' = Step(gen)
    /\ out' = [fn |-> "gen_opt.step", ok |-> TRUE, shape |-> <<>>,
               grads |-> gen.grad, at |-> idx]
    /\ idx' = idx + 1
    /\ pc' = "batch"
    /\ UNCHANGED <<disc, sn, inp, h, zs, ys, call, used>>

TrainNext ==
    \/ TrainBatch
    \/ DiscZeroGrad
    \/ GenerateFake
    \/ DiscForward
    \/ DiscBackward
    \/ DiscStep
    \/ GenZeroGrad
    \/ GenForward
    \/ GenBackward
    \/ GenStep

TrainSpec == TrainInit /\ [][TrainNext]_vars

----------------------------------------------------------------------------
(* The claims.                                                             *)

Pow2(n) == 2 ^ n

(* The width and height Generator.forward is to return: bottom_width       *)
(* doubled once per stage.                                                 *)
Resolution(g) == g.bottom_width * Pow2(Len(g.g_blocks))

GeneratorFinished == out.fn = "Generator" /\ pc \in {"g_done", "raised"}

(* C1, as stated: for every batch size B >= 1 and every bottom_width >= 1  *)
(* Generator.forward returns a tensor of shape [B, 3, R, R], R =           *)
(* bottom_width * 2^5, whatever base_channels is.                          *)
C1_AsStated ==
    (GeneratorFinished /\ gen.z_dim >= n_chunks)
        => /\ out.ok
           /\ out.shape = <<inp.B, 3, Resolution(gen), Resolution(gen)>>

(* C1, amended: the same for B * bottom_width^2 >= 2 and base_channels >=  *)
(* 8 (and a noise of at least n_chunks columns): with one value per        *)
(* channel the batch norm of the first stage raises in training mode, and  *)
(* with base_channels < 8 the last attention block has no query channel.   *)
C1_OutputShape ==
    (/\ GeneratorFinished
     /\ gen.z_dim >= n_chunks
     /\ gen.base_channels >= 8
     /\ inp.B * gen.bottom_width * gen.bottom_width >= 2)
        => /\ out.ok
           /\ out.shape = <<inp.B, 3, 32 * gen.bottom_width, 32 * gen.bottom_width>>

C1_Witness ==
    /\ pc = "g_done"
    /\ gen.base_channels = 96 /\ gen.bottom_width = 4 /\ gen.z_dim = 120
    /\ inp.B = 2
    /\ out = [fn |-> "Generator", ok |-> TRUE, shape |-> <<2, 3, 128, 128>>]

DiscriminatorFinished == out.fn = "Discriminator" /\ pc \in {"d_done", "raised"}

(* The image sides Discriminator.forward accepts: the five halvings leave  *)
(* an even side at every attention block.                                  *)
ValidImage(x) == x[3] = x[4] /\ x[3] >= 64 /\ x[3] % 64 = 0

(* C2: Discriminator.forward returns a tensor of shape [B, 1] for every    *)
(* valid image batch [B, 3, R, R], without a label and with a label of     *)
(* shape [B]: a call that returns returns [B, 1], and a call on a batch    *)
(* whose side is a multiple of 64 returns (base_channels >= 8).            *)
C2_ScoreShape ==
    DiscriminatorFinished
        => /\ out.ok => out.shape = <<inp.B, 1>>
           /\ (ValidImage(inp.x) /\ inp.x[1] = inp.B /\ inp.x[2] = 3
               /\ gen.base_channels >= 8) => out.ok

C2_Witness ==
    /\ pc = "d_done"
    /\ inp.labelled /\ ~inp.generated
    /\ inp.B = 2 /\ inp.x = <<2, 3, 128, 128>>
    /\ out.shape = <<2, 1>>

RECURSIVE DotTo(_, _, _)
DotTo(a, b, n) == IF n = 0 THEN 0 ELSE a[n] * b[n] + DotTo(a, b, n - 1)

(* The linear projection proj_o of the pooled features of batch element b. *)
Projection(c, b) == c.bias + DotTo(c.W, c.pooled[b], Len(c.W))

(* C3: without a label Discriminator.forward returns exactly the           *)
(* unconditional score, the linear projection of the pooled features; with *)
(* a label it returns that score plus the dot product, over the channels,  *)
(* of the pooled features with the label's embedding row; the              *)
(* unconditional term is the same in both modes.                           *)
C3_ScoreValue ==
    call.kind = "dscore"
        => \A b \in 1..Len(call.hv) :
              /\ call.uncond_out[b] = <<Projection(call, b)>>
              /\ ~call.labelled => call.score[b] = call.uncond_out[b]
              /\ call.labelled =>
                    call.score[b] =
                        <<Projection(call, b)
                          + DotTo(call.emb[call.y[b] + 1], call.pooled[b],
                                  Len(call.W))>>

C3_Witness ==
    /\ call.kind = "dscore"
    /\ call.labelled
    /\ Len(call.hv) = 2 /\ Len(call.W) = 2
    /\ call.y = <<1, 0>>
    /\ call.score[1] # call.uncond_out[1]
    /\ call.score[2] # call.uncond_out[2]

AttentionReturned == call.kind = "attn" /\ call.ok /\ pc = "returned"

(* C4, as stated: with gamma = 0 the output of AttentionBlock.forward      *)
(* equals x element for element, whatever the convolution weights.         *)
C4_AsStated ==
    (AttentionReturned /\ call.gamma = Fin(0)) => call.oute = call.xe

(* C4, amended: with gamma = 0 the output equals x element for element     *)
(* wherever the projected attention output o is finite; where o is         *)
(* infinite or NaN, 0 * o is NaN and so is the output.                     *)
C4_GainZeroIdentity ==
    (AttentionReturned /\ call.gamma = Fin(0) /\ call.oe.k = "fin")
        => call.oute = call.xe

C4_Witness ==
    /\ AttentionReturned
    /\ call.gamma = Fin(0) /\ call.oe = Fin(5) /\ call.xe = Fin(3)
    /\ call.oute = Fin(3)
    /\ call.x = <<2, 8, 2, 2>>

SplitDone == pc \in {"g_proj", "g_res", "g_attn", "g_out"}

(* C5: for every z_dim the Generator is constructed with, forward splits   *)
(* the noise into exactly n_stages + 1 = 6 chunks, all of the same size,   *)
(* and each of the 5 residual stages receives one of them concatenated     *)
(* with the unsplit class embedding.                                       *)
C5_SixEqualChunks ==
    SplitDone
        => /\ Len(zs) = Len(gen.g_blocks) + 1
           /\ \A i, j \in 1..Len(zs) : Len(zs[i]) = Len(zs[j])
           /\ Len(ys) = Len(gen.g_blocks)

(* Columns lo+1 .. lo+n of the noise.                                      *)
NoiseColumns(lo, n) == [i \in 1..n |-> <<"z", lo + i>>]

(* C6: chunk 0 of the noise is the input of proj_z and of nothing else;    *)
(* stage i (1..5) receives the class embedding followed by chunk i, a      *)
(* vector of shared_dim + z_chunk_size entries (148 for z_dim = 120 and    *)
(* shared_dim = 128), the input width of the stage's two conditional       *)
(* normalisations.                                                         *)
C6_Conditioning ==
    LET cs == gen.z_dim \div 6
        Expected(i) == YCols(gen.shared_dim) \o NoiseColumns(i * cs, cs)
    IN  /\ SplitDone =>
            /\ zs[1] = NoiseColumns(0, cs)
            /\ \A i \in 1..5 :
                  /\ ys[i] = Expected(i)
                  /\ \A k \in 1..Len(ys[i]) : ys[i][k] \notin {zs[1][n] : n \in 1..cs}
        /\ (call.kind = "proj_z") => call.z = NoiseColumns(0, cs)
        /\ (call.kind = "gres") =>
            LET m == gen.g_blocks[call.stage].res
            IN  /\ call.y = Expected(call.stage)
                /\ Len(call.y) = gen.shared_dim + cs
                /\ (gen.z_dim = 120 /\ gen.shared_dim = 128) => Len(call.y) = 148
                /\ m.bn1.class_scale_transform.in = Len(call.y)
                /\ m.bn1.class_shift_transform.in = Len(call.y)
                /\ m.bn2.class_scale_transform.in = Len(call.y)
                /\ m.bn2.class_shift_transform.in = Len(call.y)

C6_Witness ==
    /\ pc = "g_attn" /\ idx = 5
    /\ call.kind = "gres" /\ call.ok /\ call.stage = 5
    /\ gen.z_dim = 120 /\ gen.shared_dim = 128
    /\ Len(call.y) = 148
    /\ call.y[129] = <<"z", 101>>

(* C7: every weighted layer (linear, convolution, embedding) that the      *)
(* Generator, the Discriminator and their blocks apply in a forward pass   *)
(* is wrapped in spectral normalisation.                                   *)
C7_AllSpectralNorm ==
    \A u \in used : u.kind \in {"linear", "conv", "embedding"} => u.sn

(* The sample forward pass: the Discriminator scores what the Generator    *)
(* returned.                                                               *)
InSamplePass == pc \notin {"idle"} /\ (out.fn = "Discriminator" => inp.generated)
                /\ (pc \in {"d_res", "d_attn", "d_head"} => inp.generated)

(* C8, as stated: for any noise batch, class embedding and bottom_width,   *)
(* the Discriminator applied to Generator.forward's output raises at no    *)
(* residual or attention stage and returns one score per batch element.    *)
C8_AsStated ==
    (InSamplePass /\ inp.generated /\ gen.base_channels >= 8)
        => /\ pc # "raised"
           /\ pc = "d_done" => out.shape = <<inp.B, 1>>

(* C8, amended: the same for every even bottom_width (with base_channels   *)
(* >= 8 and a noise of at least n_chunks columns): the image side          *)
(* 32 * bottom_width is then a multiple of 64, and the Generator raises at *)
(* no stage either. With an odd bottom_width the fifth or sixth attention  *)
(* block of the Discriminator meets an odd side and raises.                *)
C8_RoundTrip ==
    (/\ InSamplePass
     /\ gen.base_channels >= 8
     /\ gen.z_dim >= n_chunks
     /\ gen.bottom_width % 2 = 0)
        => /\ pc # "raised"
           /\ call.ok
           /\ pc = "d_done" => out = [fn |-> "Discriminator", ok |-> TRUE,
                                      shape |-> <<inp.B, 1>>]

C8_Witness ==
    /\ pc = "d_done"
    /\ inp.generated /\ inp.labelled
    /\ gen.bottom_width = 4 /\ gen.base_channels = 96 /\ gen.z_dim = 120
    /\ inp.x = <<2, 3, 128, 128>>
    /\ out.shape = <<2, 1>>
    /\ call.kind = "attn" /\ call.stage = 6 /\ call.shape = <<2, 1536, 4, 4>>

(* C9: in GResidualBlock(c_dim, Cin, Cout) on an input [B, Cin, H, W] the  *)
(* main path and the skip path both have shape [B, Cout, 2H, 2W] at the    *)
(* sum; both upsample by 2, and the 1x1 mixin convolution is applied to    *)
(* the skip path exactly when Cin # Cout.                                  *)
C9_GResidualShapes ==
    (call.kind = "gres" /\ call.main.ok /\ call.skip.ok)
        => LET x == call.x
               want == <<x[1], call.out_channels, 2 * x[3], 2 * x[4]>>
           IN  /\ call.main.shape = want
               /\ call.skip.shape = want
               /\ call.ok /\ call.shape = want
               /\ ("conv_mixin" \in {call.skip_ops[i] : i \in 1..Len(call.skip_ops)})
                     <=> (call.in_channels # call.out_channels)
               /\ call.skip_ops[1] = "upsample_fn"
               /\ (call.in_channels = call.out_channels)
                     => call.skip_ops = <<"upsample_fn">>

C9_Witness ==
    /\ call.kind = "gres" /\ call.ok /\ pc = "returned"
    /\ call.in_channels = 2 /\ call.out_channels = 2
    /\ call.x = <<1, 2, 2, 3>>
    /\ call.main.shape = <<1, 2, 4, 6>>
    /\ call.skip.shape = <<1, 2, 4, 6>>
    /\ call.skip_ops = <<"upsample_fn">>

(* C10: a DResidualBlock built with downsample=False returns, on every     *)
(* input [B, Cin, H, W], a tensor of spatial size H x W, for both values   *)
(* of use_preactivation and for Cin = Cout as for Cin # Cout.              *)
C10_NoDownsampleKeepsSize ==
    (call.kind = "dres" /\ pc \in {"returned", "raised"} /\ ~call.downsample)
        => /\ call.ok
           /\ call.shape = <<call.x[1], call.out_channels, call.x[3], call.x[4]>>

C10_Witness ==
    /\ call.kind = "dres" /\ pc = "returned"
    /\ ~call.downsample /\ ~call.use_preactivation
    /\ call.in_channels = 1 /\ call.out_channels = 2
    /\ call.x = <<2, 1, 3, 1>>
    /\ call.shape = <<2, 2, 3, 1>>

(* C11: an AttentionBlock whose channel count is not a multiple of 8       *)
(* returns no tensor, on any input: its construction or its forward        *)
(* raises. (channels // 8 and channels // 2 are floor divisions: with      *)
(* channels = 12 the block has 1 query channel and 6 value channels and    *)
(* its forward returns.)                                                   *)
C11_NeverReturns ==
    (call.kind = "attn" /\ pc \in {"returned", "raised"} /\ call.x[2] % 8 # 0)
        => ~call.ok /\ pc = "raised"

SameDirection(a, b) ==
    /\ a[1] * b[2] = a[2] * b[1]
    /\ Dot2(a, b) >= 0
    /\ (a = <<0, 0>>) <=> (b = <<0, 0>>)

(* new is old after one power iteration on the weight W.                   *)
IsPowerStep(W, old, new) ==
    /\ SameDirection(new.v, MatVec(TransposeMat(W), old.u))
    /\ SameDirection(new.u, MatVec(W, new.v))
    /\ \A x \in {new.u, new.v} : x = <<0, 0>> \/ Gcd(Abs(x[1]), Abs(x[2])) = 1

(* The module whose forward is running at pc.                              *)
Running ==
    IF pc \in {"g_split", "g_proj", "g_res", "g_attn", "g_out"} THEN "Generator"
    ELSE IF pc \in {"d_res", "d_attn", "d_head"} THEN "Discriminator"
    ELSE "none"

C13_ReturnsNorm ==
    (call.kind = "ortho" /\ pc \in {"returned", "raised"})
        => call.ok /\ pc = "returned"

Range(q) == {q[i] : i \in 1..Len(q)}
Pos(q, e) == CHOOSE i \in 1..Len(q) : q[i] = e

(* C14: the skip path of DResidualBlock applies the mixin convolution      *)
(* before the downsampling when use_preactivation is true and the          *)
(* downsampling before the mixin convolution when it is false; which of    *)
(* the two operations are applied does not depend on use_preactivation,    *)
(* and each is applied at most once.                                       *)
C14_SkipOrder ==
    call.kind = "dres"
        => LET ops == call.skip_ops
               mixin == (call.in_channels # call.out_channels) \/ call.downsample
           IN  /\ Range(ops) = (IF mixin THEN {"conv_mixin"} ELSE {})
                               \cup (IF call.downsample THEN {"downsample_fn"}
                                     ELSE {})
               /\ Len(ops) = Cardinality(Range(ops))
               /\ {"conv_mixin", "downsample_fn"} \subseteq Range(ops)
                     => (call.use_preactivation
                           <=> Pos(ops, "conv_mixin") < Pos(ops, "downsample_fn"))

C14_Witness ==
    /\ call.kind = "dres" /\ pc = "returned"
    /\ call.use_preactivation /\ call.downsample
    /\ call.x = <<1, 1, 2, 2>> /\ call.out_channels = 2
    /\ call.skip_ops = <<"conv_mixin", "downsample_fn">>
    /\ call.skip.shape = <<1, 2, 1, 1>>

(* C15: DResidualBlock applies the 1x1 mixin convolution on its skip path  *)
(* exactly when Cin # Cout or downsample is true; with Cin = Cout and no   *)
(* downsampling the skip path is the input itself.                         *)
C15_MixinIff ==
    call.kind = "dres"
        => /\ ("conv_mixin" \in Range(call.skip_ops))
                 <=> (call.in_channels # call.out_channels \/ call.downsample)
           /\ (call.in_channels = call.out_channels /\ ~call.downsample)
                 => /\ call.skip_ops = <<>>
                    /\ call.skip = [ok |-> TRUE, shape |-> call.x]

C15_Witness ==
    /\ call.kind = "dres" /\ pc = "returned"
    /\ call.in_channels = 2 /\ call.out_channels = 2 /\ ~call.downsample
    /\ call.x = <<2, 2, 3, 3>>
    /\ call.skip_ops = <<>>
    /\ call.skip.shape = <<2, 2, 3, 3>>

(* C16: the main path of DResidualBlock.forward is a ReLU on the input     *)
(* only with use_preactivation, then conv1, a ReLU, and the average        *)
(* pooling by 2 only with downsample; conv1 is the only weighted layer on  *)
(* it, and conv2 is applied nowhere in the forward.                        *)
C16_MainPath ==
    call.kind = "dres"
        => LET ops == call.main_ops
               ReLU == {"relu", "activation"}
               n == Len(ops)
               first == IF call.use_preactivation THEN 2 ELSE 1
           IN  /\ n = first + 1 + (IF call.downsample THEN 1 ELSE 0)
               /\ call.use_preactivation => ops[1] = "relu"
               /\ ops[first] = "conv1"
               /\ ops[first + 1] \in ReLU
               /\ call.downsample => ops[n] = "downsample_fn"
               /\ \A u \in used : u.name \in {"res.conv1", "res.conv_mixin"}
               /\ \E u \in used : u.name = "res.conv1"
               /\ call.main.ok
                     => call.main.shape =
                           IF call.downsample
                           THEN <<call.x[1], call.out_channels,
                                  call.x[3] \div 2, call.x[4] \div 2>>
                           ELSE <<call.x[1], call.out_channels,
                                  call.x[3], call.x[4]>>

C16_Witness ==
    /\ call.kind = "dres" /\ pc = "returned"
    /\ call.use_preactivation /\ call.downsample
    /\ call.x = <<2, 2, 3, 2>> /\ call.out_channels = 1
    /\ call.main_ops = <<"relu", "conv1", "activation", "downsample_fn">>
    /\ call.main.shape = <<2, 1, 1, 1>>
    /\ used = {[name |-> "res.conv1", kind |-> "conv", sn |-> TRUE],
               [name |-> "res.conv_mixin", kind |-> "conv", sn |-> TRUE]}

(* C17: of the Discriminator's residual stages the first, which takes the  *)
(* 3 image channels, is built without pre-activation and every later one   *)
(* with it; every stage downsamples but the last; each stage takes the     *)
(* channels the stage before it made, and the last makes                   *)
(* 16 * base_channels, the width of the embedding table and of proj_o.     *)
C17_StageSequence ==
    LET d == disc.d_blocks
        n == Len(d)
    IN  /\ n >= 2
        /\ d[1].res.in_channels = RGB
        /\ ~d[1].res.use_preactivation
        /\ \A i \in 2..n : d[i].res.use_preactivation
        /\ \A i \in 1..(n - 1) : d[i].res.downsample
        /\ ~d[n].res.downsample
        /\ \A i \in 2..n : d[i].res.in_channels = d[i - 1].res.out_channels
        /\ \A i \in 1..n : d[i].res.conv1.in = d[i].res.in_channels
                           /\ d[i].res.conv1.out = d[i].res.out_channels
        /\ d[n].res.out_channels = 16 * gen.base_channels
        /\ disc.shared_emb.out = 16 * gen.base_channels
        /\ disc.proj_o.in = 16 * gen.base_channels
        /\ (pc \in {"d_attn", "d_head", "d_done"} /\ call.kind = "dres")
              => call.in_channels = d[call.stage].res.in_channels

C17_Witness ==
    /\ pc = "d_done" /\ out.ok
    /\ gen.base_channels = 96
    /\ disc.d_blocks[1].res.in_channels = 3
    /\ disc.d_blocks[1].res.out_channels = 96
    /\ disc.d_blocks[6].res.in_channels = 1536
    /\ disc.d_blocks[6].res.out_channels = 1536
    /\ disc.proj_o.in = 1536
    /\ ~inp.generated /\ inp.x = <<1, 3, 64, 64>>

(* The channel counts at the six stage boundaries of the Generator, in     *)
(* units of base_channels.                                                 *)
ChannelSchedule == <<16, 16, 8, 4, 2, 1>>

(* C18: Generator.forward runs its 5 stages in order, in each the residual *)
(* block and then the attention block; stage i takes ChannelSchedule[i]    *)
(* and makes ChannelSchedule[i + 1] times base_channels channels, which is *)
(* what the stage before it made and what its attention block is built     *)
(* for; the residual block doubles the height and the width and the        *)
(* attention block keeps them.                                             *)
C18_StageOrder ==
    [][LET g == gen.g_blocks
           bc == gen.base_channels
       IN  /\ Len(g) = 5
           /\ \A i \in 1..5 :
                 /\ g[i].res.in_channels = ChannelSchedule[i] * bc
                 /\ g[i].res.out_channels = ChannelSchedule[i + 1] * bc
                 /\ g[i].attn.channels = g[i].res.out_channels
           /\ (pc = "g_proj" /\ pc' # "raised")
                 => pc' = "g_res" /\ idx' = 1 /\ h'[2] = ChannelSchedule[1] * bc
           /\ (pc = "g_res" /\ pc' # "raised")
                 => /\ pc' = "g_attn" /\ idx' = idx
                    /\ call'.kind = "gres" /\ call'.stage = idx
                    /\ h' = <<h[1], ChannelSchedule[idx + 1] * bc,
                              2 * h[3], 2 * h[4]>>
           /\ (pc = "g_attn" /\ pc' # "raised")
                 => /\ call'.kind = "attn" /\ call'.stage = idx
                    /\ h' = h
                    /\ IF idx < 5 THEN pc' = "g_res" /\ idx' = idx + 1
                                  ELSE pc' = "g_out"]_vars

C18_Witness ==
    /\ pc = "g_out"
    /\ gen.base_channels = 12 /\ gen.bottom_width = 3
    /\ call.kind = "attn" /\ call.stage = 5 /\ call.ok
    /\ h = <<2, 12, 96, 96>>

(* C19: on an input [B, C, H, W] with C a multiple of 8 and H and W even   *)
(* AttentionBlock.forward makes a query [B, C/8, H*W], a key               *)
(* [B, C/8, H*W/4], a value [B, C/2, H*W/4] and attention weights          *)
(* [B, H*W, H*W/4], and returns [B, C, H, W]; the max-pooled key and value *)
(* have (H/2) * (W/2) = H*W/4 positions, the count the views assume.       *)
C19_AttentionShapes ==
    (/\ call.kind = "attn"
     /\ pc \in {"returned", "raised"}
     /\ call.x[2] % 8 = 0
     /\ call.x[3] % 2 = 0
     /\ call.x[4] % 2 = 0)
        => LET B == call.x[1]
               C == call.x[2]
               H == call.x[3]
               W == call.x[4]
           IN  /\ call.theta = <<B, C \div 8, H * W>>
               /\ call.phi = <<B, C \div 8, (H * W) \div 4>>
               /\ call.g = <<B, C \div 2, (H * W) \div 4>>
               /\ call.beta = <<B, H * W, (H * W) \div 4>>
               /\ call.ok /\ pc = "returned"
               /\ call.shape = <<B, C, H, W>>
               /\ (H \div 2) * (W \div 2) * 4 = H * W

C19_Witness ==
    /\ call.kind = "attn" /\ pc = "returned"
    /\ call.x = <<2, 16, 2, 4>>
    /\ call.theta = <<2, 2, 8>>
    /\ call.phi = <<2, 2, 2>>
    /\ call.g = <<2, 8, 2>>
    /\ call.beta = <<2, 8, 2>>
    /\ call.shape = <<2, 16, 2, 4>>

(* C20: ClassConditionalBatchNorm2d.forward(x, y) returns                  *)
(* (1 + S(y)) * bn(x) + T(y), S and T linear in y and without a bias; so   *)
(* for the all-zero conditioning vector the output is bn(x), and for      *)
(* every y the output is made of one and the same bn(x), which y does not  *)
(* enter.                                                                  *)
C20_ScaleShift ==
    (call.kind = "ccbn" /\ call.ok)
        => LET D == Len(call.y)
               Sy == DotTo(call.S, call.y, D)
               Ty == DotTo(call.T, call.y, D)
           IN  /\ D = Len(call.S) /\ D = Len(call.T)
               /\ call.oute = FAdd(FMul(Fin(1 + Sy), call.normalized), Fin(Ty))
               /\ (\A i \in 1..D : call.y[i] = 0) => call.oute = call.normalized
               /\ call.shape = call.x
               /\ \A yy \in CondVectorValues :
                     CCBNValue(call.S, call.T, SubSeq(yy, 1, D), call.normalized)
                        = FAdd(FMul(Fin(1 + DotTo(call.S, yy, D)), call.normalized),
                               Fin(DotTo(call.T, yy, D)))

C20_Witness ==
    /\ call.kind = "ccbn" /\ pc = "returned"
    /\ call.x = <<2, 2, 4, 4>>
    /\ call.y = <<0, 0>>
    /\ call.S = <<2, -1>> /\ call.T = <<0, 3>>
    /\ call.normalized = Fin(3)
    /\ call.oute = Fin(3)

(* C21: for both values of downsample and of use_preactivation, all Cin    *)
(* and Cout and every input [B, Cin, H, W] with H, W >= 2, the main path   *)
(* and the skip path of DResidualBlock.forward have one and the same shape *)
(* [B, Cout, H', W'] at the sum (H' = H and W' = W without downsampling,   *)
(* H \div 2 and W \div 2 with it): the sum neither raises nor broadcasts.  *)
C21_PathsAgree ==
    (call.kind = "dres" /\ pc \in {"returned", "raised"}
     /\ call.x[3] >= 2 /\ call.x[4] >= 2)
        => LET x == call.x
               want == IF call.downsample
                       THEN <<x[1], call.out_channels, x[3] \div 2, x[4] \div 2>>
                       ELSE <<x[1], call.out_channels, x[3], x[4]>>
           IN  /\ call.main = [ok |-> TRUE, shape |-> want]
               /\ call.skip = [ok |-> TRUE, shape |-> want]
               /\ call.ok /\ pc = "returned"
               /\ call.shape = want

C21_Witness ==
    /\ call.kind = "dres" /\ pc = "returned"
    /\ call.downsample /\ ~call.use_preactivation
    /\ call.x = <<2, 1, 3, 4>> /\ call.out_channels = 2
    /\ call.main.shape = <<2, 2, 1, 2>>
    /\ call.skip.shape = <<2, 2, 1, 2>>
    /\ call.shape = <<2, 2, 1, 2>>

(* C22: for every B, every C that is a multiple of 8 and all H, W >= 1,    *)
(* odd ones too, AttentionBlock.forward raises or returns a tensor of the  *)
(* input's shape [B, C, H, W]; when it returns, the query, the key, the    *)
(* value and the attention weights all have the batch size B that the      *)
(* views inferred.                                                         *)
C22_RaisesOrSameShape ==
    (call.kind = "attn" /\ pc \in {"returned", "raised"} /\ call.x[2] % 8 = 0)
        => /\ call.ok <=> pc = "returned"
           /\ call.ok
                 => /\ call.shape = call.x
                    /\ out.shape = call.x
                    /\ \A t \in {call.theta, call.phi, call.g, call.beta} :
                          t # Raise /\ t[1] = call.x[1]

C22_Witness ==
    /\ call.kind = "attn" /\ pc = "raised"
    /\ call.x = <<2, 8, 3, 3>>
    /\ call.theta = <<2, 1, 9>>
    /\ call.phi = <<1, 1, 2>>
    /\ call.g = <<1, 4, 2>>
    /\ call.beta = Raise
    /\ ~call.ok

(* C23: in every iteration of the InfoGAN training loop the discriminator  *)
(* update precedes the generator update, and each optimiser step applies   *)
(* only gradients of its own loss from the current iteration. The          *)
(* generator's update starts only after disc_opt.step of the same          *)
(* iteration, the discriminator's only after gen_opt.step of the previous  *)
(* one; when disc_opt.step runs the .grad of the discriminator holds the   *)
(* gradient of this iteration's disc_loss alone, what gen_loss.backward    *)
(* left there having been zeroed, and likewise gen_opt.step and gen_loss;  *)
(* no gradient of the other loss ever reaches the parameters or the        *)
(* moments of a network; from disc_opt.zero_grad to disc_opt.step nothing  *)
(* of the generator changes, and gen_opt.step changes nothing of the       *)
(* discriminator.                                                          *)
DiscUpdate == {"disc_zero_grad", "fake", "disc_forward", "disc_backward", "disc_step"}
GenUpdate == {"gen_zero_grad", "gen_forward", "gen_backward", "gen_step"}
GradientsOf(loss) == {<<loss, i>> : i \in 0..idx}

C23_Order ==
    /\ pc \in GenUpdate => out.fn = "disc_opt.step" /\ out.at = idx
    /\ pc \in DiscUpdate
          => \/ idx = 0 /\ out = NoOut
             \/ idx > 0 /\ out.fn = "gen_opt.step" /\ out.at = idx - 1
    /\ pc = "disc_step" => disc.grad = {<<"disc_loss", idx>>}
    /\ pc = "gen_step" => gen.grad = {<<"gen_loss", idx>>}
    /\ out.fn = "disc_opt.step" => out.grads = {<<"disc_loss", out.at>>}
    /\ out.fn = "gen_opt.step" => out.grads = {<<"gen_loss", out.at>>}
    /\ disc.params \cup disc.opt \subseteq GradientsOf("disc_loss")
    /\ gen.params \cup gen.opt \subseteq GradientsOf("gen_loss")

C23_Frame ==
    /\ pc \in DiscUpdate => gen' = gen
    /\ pc = "disc_step" => disc'.params = disc.params \cup {<<"disc_loss", idx>>}
    /\ pc = "gen_step" => /\ disc' = disc
                          /\ gen'.params = gen.params \cup {<<"gen_loss", idx>>}

C23_OwnGradients == []C23_Order /\ [][C23_Frame]_vars

(* The second iteration is over: each optimiser has stepped twice, on its  *)
(* own loss, while the .grad of the discriminator holds what               *)
(* gen_loss.backward left there.                                           *)
C23_Witness ==
    /\ pc = "batch" /\ idx = 2
    /\ out.fn = "gen_opt.step" /\ out.at = 1
    /\ disc.grad = {<<"disc_loss", 1>>, <<"gen_loss", 1>>}
    /\ disc.params = {<<"disc_loss", 0>>, <<"disc_loss", 1>>}
    /\ gen.params = {<<"gen_loss", 0>>, <<"gen_loss", 1>>}

(* C24: for the InfoGAN networks, Generator.forward maps noise of shape    *)
(* [n, input_dim] to images of shape [n, im_chan, 28, 28], and             *)
(* Discriminator.forward maps a batch of n >= 2 images of shape            *)
(* [n, im_chan, 28, 28] to a pair of tensors of shapes [n, 1] and          *)
(* [n, 2*c_dim], so that the slices [:, :c_dim] and [:, c_dim:] each have  *)
(* width c_dim, the shape of the latent code c_labels.                     *)
C24_GeneratorShape ==
    (call.kind = "info_gen" /\ call.noise = <<call.noise[1], gen.input_dim>>)
        => /\ pc = "returned" /\ call.ok
           /\ call.shape = <<call.noise[1], used.im_chan, 28, 28>>
           /\ out.shape = call.shape

C24_DiscriminatorShape ==
    (call.kind = "info_disc"
     /\ call.image = <<call.image[1], used.im_chan, 28, 28>>)
        => LET n == call.image[1]
           IN  /\ pc = "returned" /\ call.ok
               /\ call.disc_pred = <<n, 1>>
               /\ call.q_pred = <<n, 2 * used.c_dim>>
               /\ out.shape = <<call.disc_pred, call.q_pred>>
               /\ call.disc_q_mean = <<n, used.c_dim>>
               /\ call.disc_q_logvar = <<n, used.c_dim>>
               /\ call.c_labels = call.disc_q_mean

C24_Shapes ==
    /\ C24_GeneratorShape
    /\ (call.kind = "info_disc" /\ call.image[1] >= 2) => C24_DiscriminatorShape

(* C24 as the specification states it, for a batch of any size: a batch of *)
(* one image makes the batch normalisation of q_layer raise.               *)
C24_AsStated ==
    /\ C24_GeneratorShape
    /\ C24_DiscriminatorShape

(* A discriminator with c_dim = 2 has returned for a batch of two images   *)
(* of the generator's shape.                                               *)
C24_Witness ==
    /\ call.kind = "info_disc" /\ pc = "returned"
    /\ used.c_dim = 2
    /\ call.image = <<2, used.im_chan, 28, 28>>
    /\ call.q_pred = <<2, 4>>
    /\ call.disc_q_logvar = <<2, 2>>
    /\ InfoGeneratorForward(gen, <<2, gen.input_dim>>, training) = call.image

====
